---------------------------- MODULE Spec2Model ----------------------------
(***************************************************************************)
(* The filter-expression language of the host inventory: Tokenizer,        *)
(* Parser, expression nodes and their evaluation, as implemented in        *)
(* src/python/parser.py, src/python/expression_evaluation/ and the         *)
(* single-file revision src/python/inventory.py.                           *)
(*                                                                         *)
(* Text is a sequence of one-character strings; a token is such a          *)
(* sequence too.  Python's None is the value None below.                   *)
(***************************************************************************)
EXTENDS Integers, Sequences, FiniteSets, TLC

VARIABLES
    phase,          \* where the call under way stands
    entry,          \* the method that was called
    revision,       \* which revision of the classes is running
    specification,  \* Parser.specification: the text handed to Parser()
    data,           \* ExpressionFilter.data / the record handed to evaluate()
    tokens,         \* Tokenizer.tokens
    current,        \* Tokenizer.current
    stack,          \* the parser's call stack, innermost frame last
    expression,     \* the expression evaluate() is called on, or None
    error,          \* the exception that ended the call, or None
    result,         \* what the call returned, or None
    first,          \* the first evaluate() call: its arguments and outcome
    calls,          \* how many times evaluate() was called on expression
    log,            \* the evaluate() and operator_func calls of the last run
    args,           \* the arguments of the call, when it is not on a text
    functions,      \* FunctionFactory.functions
    etcd,           \* the hosts etcd holds under base_key, in key order
    hosts,          \* list_hosts: the list it is building
    index,          \* list_hosts: how many of the stored hosts the loop took
    instance,       \* EtcdClient._instance
    formatters,     \* OutputFormatterFactory._formatters / .formatters
    store,          \* the hosts kept: etcd's keys and the text under each
    puts,           \* the puts the calls in hand sent to etcd
    clients,        \* the create_host call of each of the concurrent clients
    inventory       \* self.hosts of the HostInventory kept in memory

vars ==
    <<phase, entry, revision, specification, data, tokens, current, stack,
      expression, error, result, first, calls, log, args, functions,
      etcd, hosts, index, instance, formatters, store, puts,
      clients, inventory>>

\* the state of list_hosts and of the classes around it
\* the hosts kept
storage == <<store, puts, clients, inventory>>

listing == <<etcd, hosts, index, instance, formatters, storage>>

\* what the parser's steps leave alone
evaluation == <<first, calls, log, args, functions, listing>>

None == [k |-> "none"]

-----------------------------------------------------------------------------
(* Bounds of the model                                                     *)

\* longest generated text handed to Parser(), in characters
MaxLen == 4

\* longest generated text handed to ExpressionFilter.evaluate
MaxFilterLen == 2

\* deepest nesting of operators in an expression built directly
MaxDepth == 1

-----------------------------------------------------------------------------
(* Characters                                                              *)

Letters ==
    {"a", "b", "c", "d", "e", "f", "g", "h", "i", "j", "k", "l", "m",
     "n", "o", "p", "q", "r", "s", "t", "u", "v", "w", "x", "y", "z"}

Digits == {"0", "1", "2", "3", "4", "5", "6", "7", "8", "9"}

\* the characters the regex class \w matches
WordChars == Letters \cup Digits \cup {"_"}

DQ == "\""

SQ == "'"

\* str.strip(chars): drop the leading and the trailing run of chars
RECURSIVE LStrip(_, _)
LStrip(s, chars) ==
    IF s # <<>> /\ Head(s) \in chars THEN LStrip(Tail(s), chars) ELSE s

RECURSIVE RStrip(_, _)
RStrip(s, chars) ==
    IF s # <<>> /\ s[Len(s)] \in chars
    THEN RStrip(SubSeq(s, 1, Len(s) - 1), chars)
    ELSE s

Strip(s, chars) == RStrip(LStrip(s, chars), chars)

-----------------------------------------------------------------------------
(* Tokenizer.__init__: re.findall over the specification                   *)

\* is the character at position k (1-based) a word character; positions
\* outside the text are not
IsWordAt(s, k) == k >= 1 /\ k <= Len(s) /\ s[k] \in WordChars

\* the regex assertion \b between positions k and k+1
Boundary(s, k) == IsWordAt(s, k) # IsWordAt(s, k + 1)

\* length of the longest run of word characters starting at i
RECURSIVE WordRun(_, _)
WordRun(s, i) == IF IsWordAt(s, i) THEN 1 + WordRun(s, i + 1) ELSE 0

\* does the literal lit stand at position i
LitAt(s, i, lit) ==
    /\ i + Len(lit) - 1 <= Len(s)
    /\ SubSeq(s, i, i + Len(lit) - 1) = lit

\* the longest n in 1..max with a \b after i+n-1, or 0: a greedy quantifier
\* backing off until the closing \b holds
RECURSIVE BackOff(_, _, _)
BackOff(s, i, n) ==
    IF n = 0 THEN 0
    ELSE IF Boundary(s, i + n - 1) THEN n
    ELSE BackOff(s, i, n - 1)

\* the alternatives of the group, in the order the pattern lists them; each
\* gives the length it matches at i with the closing \b, or 0
AltArith(s, i) ==
    IF i <= Len(s) /\ s[i] \in {"+", "-", "*", "/", "%"} /\ Boundary(s, i)
    THEN 1 ELSE 0

AltWord(s, i) == BackOff(s, i, WordRun(s, i))

AltRel(s, i, c) ==
    IF LitAt(s, i, <<c, "=">>) /\ Boundary(s, i + 1) THEN 2
    ELSE IF LitAt(s, i, <<c>>) /\ Boundary(s, i) THEN 1
    ELSE 0

AltLit(s, i, lit) ==
    IF LitAt(s, i, lit) /\ Boundary(s, i + Len(lit) - 1) THEN Len(lit) ELSE 0

AltParen(s, i) ==
    IF i <= Len(s) /\ s[i] \in {"(", ")"} /\ Boundary(s, i) THEN 1 ELSE 0

FirstNonZero(ns) ==
    IF \E j \in 1..Len(ns) : ns[j] # 0
    THEN ns[CHOOSE j \in 1..Len(ns) :
                ns[j] # 0 /\ \A h \in 1..(j - 1) : ns[h] = 0]
    ELSE 0

\* length of the match of the whole pattern at position i, or 0
MatchAt(s, i) ==
    IF ~Boundary(s, i - 1) THEN 0
    ELSE FirstNonZero(<<AltArith(s, i),
                        AltWord(s, i),
                        AltRel(s, i, ">"),
                        AltRel(s, i, "<"),
                        AltLit(s, i, <<"!", "=">>),
                        AltLit(s, i, <<"=", "=">>),
                        AltLit(s, i, <<"&", "&">>),
                        AltLit(s, i, <<"|", "|">>),
                        AltParen(s, i)>>)

\* re.findall: the non-overlapping matches from left to right; a position
\* where nothing matches is skipped
RECURSIVE FindAll(_, _)
FindAll(s, i) ==
    IF i > Len(s) THEN <<>>
    ELSE LET n == MatchAt(s, i)
         IN IF n = 0 THEN FindAll(s, i + 1)
            ELSE <<SubSeq(s, i, i + n - 1)>> \o FindAll(s, i + n)

Tokenize(s) == FindAll(s, 1)

-----------------------------------------------------------------------------
(* Python values and exceptions                                            *)

PyBool(b) == [k |-> "bool", b |-> b]

PyInt(n) == [k |-> "int", n |-> n]

PyFloat(n) == [k |-> "float", n |-> n]

PyStr(s) == [k |-> "str", s |-> s]

\* a list of values
PyList(items) == [k |-> "list", items |-> items]

\* a dict: a function from its keys, which are texts, to its values
PyDict(items) == [k |-> "dict", items |-> items]

\* an re.Match object: the text matched
PyMatch(group) == [k |-> "match", group |-> group]

Exc(type, msg, arg) == [k |-> "exc", type |-> type, msg |-> msg, arg |-> arg]

IsExc(v) == "k" \in DOMAIN v /\ v.k = "exc"

-----------------------------------------------------------------------------
(* Expression nodes                                                        *)

Value(value) == [node |-> "Value", value |-> value]

Field(field_name) == [node |-> "Field", field_name |-> field_name]

UnaryOperator(operand, operator_func) ==
    [node |-> "UnaryOperator", operand |-> operand,
     operator_func |-> operator_func]

BinaryOperator(left, right, operator_func) ==
    [node |-> "BinaryOperator", left |-> left, right |-> right,
     operator_func |-> operator_func]

-----------------------------------------------------------------------------
(* The two revisions of the classes                                        *)

\* src/python/parser.py with src/python/expression_evaluation/
Package == "package"

\* the single file src/python/inventory.py
SingleFile == "inventory.py"

Revisions == {Package, SingleFile}

-----------------------------------------------------------------------------
(* Parser.get_precedence and OperatorFactory                               *)

precedence ==
    (<<"&", "&">> :> 1) @@ (<<"|", "|">> :> 1) @@ (<<"!">> :> 2) @@
    (<<"<">> :> 3) @@ (<<"<", "=">> :> 3) @@ (<<">">> :> 3) @@
    (<<">", "=">> :> 3) @@ (<<"=", "=">> :> 3) @@ (<<"!", "=">> :> 3) @@
    (<<"=", "~">> :> 3) @@ (<<"i", "s">> :> 3) @@
    (<<"i", "s", "n", "t">> :> 3) @@
    (<<"&">> :> 4) @@ (<<"|">> :> 4) @@ (<<"~">> :> 4) @@ (<<"^">> :> 4) @@
    (<<"<", "<">> :> 5) @@ (<<">", ">">> :> 5) @@ (<<">", ">", ">">> :> 5) @@
    (<<"?">> :> 6) @@ (<<":">> :> 6)

get_precedencePowerAtFive(operator_symbol) ==
    IF operator_symbol = <<"^">> THEN 5
    ELSE IF operator_symbol \in DOMAIN precedence
    THEN precedence[operator_symbol]
    ELSE 0

get_precedence(operator_symbol) ==
    IF operator_symbol \in DOMAIN precedence
    THEN precedence[operator_symbol]
    ELSE 0

\* OperatorFactory.operators of expression_evaluation/factories.py
operators ==
    (<<"+">> :> "operator.add") @@ (<<"-">> :> "operator.sub") @@
    (<<"*">> :> "operator.mul") @@ (<<"/">> :> "operator.truediv") @@
    (<<"%">> :> "operator.mod") @@
    (<<"&", "&">> :> "operator.and_") @@ (<<"|", "|">> :> "operator.or_") @@
    (<<"!">> :> "operator.not_") @@
    (<<"<">> :> "operator.lt") @@ (<<"<", "=">> :> "operator.le") @@
    (<<">">> :> "operator.gt") @@ (<<">", "=">> :> "operator.ge") @@
    (<<"=", "=">> :> "operator.eq") @@ (<<"!", "=">> :> "operator.ne") @@
    (<<"=", "~">> :> "re.match") @@
    (<<"i", "s">> :> "operator.is_") @@
    (<<"&">> :> "operator.and_") @@ (<<"|">> :> "operator.or_") @@
    (<<"~">> :> "operator.xor") @@ (<<"^">> :> "operator.pow") @@
    (<<"<", "<">> :> "operator.lshift") @@
    (<<">", ">">> :> "operator.rshift") @@
    (<<">", ">", ">">> :> "operator.rshift")

\* OperatorFactory.operators of inventory.py: the same with isnt
operatorsSingleFile ==
    operators @@ (<<"i", "s", "n", "t">> :> "operator.is_not")

OperatorsOf(rev) == IF rev = SingleFile THEN operatorsSingleFile ELSE operators

\* OperatorFactory.create_operator: the node, or the ValueError it raises
create_operator(rev, operator_symbol, left, right) ==
    IF operator_symbol \in DOMAIN OperatorsOf(rev)
    THEN BinaryOperator(left, right, OperatorsOf(rev)[operator_symbol])
    ELSE Exc("ValueError", "Operator not supported", operator_symbol)

-----------------------------------------------------------------------------
(* The str predicates Parser.parse_operand uses                            *)

\* token.startswith('"') or token.startswith("'")
StartsWithQuote(token) == token # <<>> /\ token[1] \in {DQ, SQ}

\* str.isnumeric()
isnumeric(token) ==
    token # <<>> /\ \A j \in 1..Len(token) : token[j] \in Digits

\* re.match(r"^[a-zA-Z_][a-zA-Z_0-9]*$", token)
IsIdentifier(token) ==
    /\ token # <<>>
    /\ token[1] \in Letters \cup {"_"}
    /\ \A j \in 1..Len(token) : token[j] \in WordChars

\* str.isalnum()
isalnum(token) ==
    token # <<>> /\ \A j \in 1..Len(token) : token[j] \in Letters \cup Digits

DigitValue ==
    ("0" :> 0) @@ ("1" :> 1) @@ ("2" :> 2) @@ ("3" :> 3) @@ ("4" :> 4) @@
    ("5" :> 5) @@ ("6" :> 6) @@ ("7" :> 7) @@ ("8" :> 8) @@ ("9" :> 9)

\* the number a run of digits denotes
RECURSIVE ToNumber(_)
ToNumber(token) ==
    IF token = <<>> THEN 0
    ELSE 10 * ToNumber(SubSeq(token, 1, Len(token) - 1))
         + DigitValue[token[Len(token)]]

-----------------------------------------------------------------------------
(* Tokenizer.peek, next, has_tokens                                        *)

has_tokens(toks, cur) == cur < Len(toks)

peek(toks, cur) == IF has_tokens(toks, cur) THEN toks[cur + 1] ELSE None

\* a next() that leaves the cursor where it is
nextStaying(toks, cur) == cur

next(toks, cur) == IF has_tokens(toks, cur) THEN cur + 1 ELSE cur

-----------------------------------------------------------------------------
(* The semantic functions of the operator table, on Python values          *)

\* bool is a subclass of int: True is 1 and False is 0
IsNum(v) == v.k \in {"bool", "int", "float"}

NumVal(v) == IF v.k = "bool" THEN (IF v.b THEN 1 ELSE 0) ELSE v.n

\* ==
PyEq(l, r) ==
    IF IsNum(l) /\ IsNum(r) THEN NumVal(l) = NumVal(r)
    ELSE IF l.k = "str" /\ r.k = "str" THEN l.s = r.s
    ELSE l.k = "none" /\ r.k = "none"

LowerCase ==
    <<"a", "b", "c", "d", "e", "f", "g", "h", "i", "j", "k", "l", "m",
      "n", "o", "p", "q", "r", "s", "t", "u", "v", "w", "x", "y", "z">>

Punctuation ==
    (" " :> 32) @@ ("!" :> 33) @@ (DQ :> 34) @@ ("%" :> 37) @@ ("&" :> 38) @@
    (SQ :> 39) @@ ("(" :> 40) @@ (")" :> 41) @@ ("*" :> 42) @@ ("+" :> 43) @@
    ("-" :> 45) @@ ("/" :> 47) @@ (":" :> 58) @@ ("<" :> 60) @@ ("=" :> 61) @@
    (">" :> 62) @@ ("?" :> 63) @@ ("@" :> 64) @@ ("^" :> 94) @@ ("_" :> 95) @@
    ("|" :> 124) @@ ("~" :> 126)

\* ord(c)
CharCode(c) ==
    IF c \in Digits THEN 48 + DigitValue[c]
    ELSE IF c \in Letters
         THEN 96 + (CHOOSE j \in 1..Len(LowerCase) : LowerCase[j] = c)
    ELSE Punctuation[c]

\* str < str: by the first differing character, a proper prefix first
RECURSIVE StrLess(_, _)
StrLess(a, b) ==
    IF b = <<>> THEN FALSE
    ELSE IF a = <<>> THEN TRUE
    ELSE IF Head(a) = Head(b) THEN StrLess(Tail(a), Tail(b))
    ELSE CharCode(Head(a)) < CharCode(Head(b))

\* l < r where Python orders the two values
Orders(l, r) == (IsNum(l) /\ IsNum(r)) \/ (l.k = "str" /\ r.k = "str")

PyLess(l, r) ==
    IF l.k = "str" THEN StrLess(l.s, r.s) ELSE NumVal(l) < NumVal(r)

\* & and | of two non-negative ints, bit by bit
RECURSIVE BitAnd(_, _)
BitAnd(a, b) ==
    IF a = 0 \/ b = 0 THEN 0
    ELSE 2 * BitAnd(a \div 2, b \div 2) + (IF a % 2 = 1 /\ b % 2 = 1 THEN 1 ELSE 0)

RECURSIVE BitOr(_, _)
BitOr(a, b) ==
    IF a = 0 THEN b
    ELSE IF b = 0 THEN a
    ELSE 2 * BitOr(a \div 2, b \div 2) + (IF a % 2 = 1 \/ b % 2 = 1 THEN 1 ELSE 0)

TypeError == Exc("TypeError", "unsupported operand", <<>>)

\* the functions whose semantics the model covers
ModelledFuncs ==
    {"operator.and_", "operator.or_", "operator.not_", "operator.eq",
     "operator.ne", "operator.lt", "operator.le", "operator.gt", "operator.ge"}

\* re.match(pattern, string) for a pattern of letters and digits, which
\* stand for themselves: the match at the start of string, or None
re_match(pattern, string) ==
    IF pattern.k # "str" \/ string.k # "str" THEN TypeError
    ELSE IF \E j \in 1..Len(pattern.s) : pattern.s[j] \notin Letters \cup Digits
    THEN Exc("NotModelled", "re.match", pattern.s)
    ELSE IF /\ Len(pattern.s) <= Len(string.s)
            /\ SubSeq(string.s, 1, Len(pattern.s)) = pattern.s
    THEN PyMatch(pattern.s)
    ELSE None

\* operator_func(left_result, right_result)
Apply2(operator_func, l, r) ==
    CASE operator_func = "operator.and_" ->
            IF l.k = "bool" /\ r.k = "bool" THEN PyBool(l.b /\ r.b)
            ELSE IF l.k \in {"bool", "int"} /\ r.k \in {"bool", "int"}
                 THEN PyInt(BitAnd(NumVal(l), NumVal(r)))
            ELSE TypeError
      [] operator_func = "operator.or_" ->
            IF l.k = "bool" /\ r.k = "bool" THEN PyBool(l.b \/ r.b)
            ELSE IF l.k \in {"bool", "int"} /\ r.k \in {"bool", "int"}
                 THEN PyInt(BitOr(NumVal(l), NumVal(r)))
            ELSE TypeError
      \* operator.not_ takes one argument and is handed two
      [] operator_func = "operator.not_" -> TypeError
      [] operator_func = "operator.eq" -> PyBool(PyEq(l, r))
      [] operator_func = "operator.ne" -> PyBool(~PyEq(l, r))
      [] operator_func \in {"operator.lt", "operator.le",
                            "operator.gt", "operator.ge"} ->
            IF Orders(l, r)
            THEN PyBool(CASE operator_func = "operator.lt" -> PyLess(l, r)
                          [] operator_func = "operator.le" -> ~PyLess(r, l)
                          [] operator_func = "operator.gt" -> PyLess(r, l)
                          [] OTHER -> ~PyLess(l, r))
            ELSE TypeError
      \* re.match(pattern, string), called with the left result first
      [] operator_func = "re.match" -> re_match(l, r)
      [] OTHER -> Exc("NotModelled", operator_func, <<>>)

\* str.split(sep) for a separator of one character
RECURSIVE Split(_, _)
Split(s, sep) ==
    IF \A j \in 1..Len(s) : s[j] # sep THEN <<PyStr(s)>>
    ELSE LET i == CHOOSE j \in 1..Len(s) :
                      s[j] = sep /\ \A h \in 1..(j - 1) : s[h] # sep
         IN <<PyStr(SubSeq(s, 1, i - 1))>>
                \o Split(SubSeq(s, i + 1, Len(s)), sep)

\* int(x): a number loses nothing here, floats being whole; a str is
\* stripped of blanks and read as a run of digits
int(x) ==
    CASE IsNum(x) -> PyInt(NumVal(x))
      [] x.k = "str" ->
            IF isnumeric(Strip(x.s, {" "}))
            THEN PyInt(ToNumber(Strip(x.s, {" "})))
            ELSE Exc("ValueError", "invalid literal for int()", <<>>)
      [] OTHER -> TypeError

\* the functions of FunctionFactory that take more than one argument
TakeMoreThanOne ==
    {"startswith", "endswith", "glob", "member", "conjunction", "keys",
     "equals", "extract_keys"}

\* operator_func(operand_result) for a function of FunctionFactory, which
\* is a record of its name and the module that defines it: factories.py
\* lines 33-91, inventory.py lines 126-139
Apply1(function, x) ==
    CASE function.module \notin {"factories", "inventory"} ->
            Exc("NotModelled", function.name, <<>>)
      [] function.name \in TakeMoreThanOne -> TypeError
      [] function.name = "round" ->
            \* factories.py: round is the function itself by the time it
            \* runs; inventory.py: the builtin
            IF function.module = "factories"
            THEN Exc("RecursionError", "maximum recursion depth exceeded", <<>>)
            ELSE IF IsNum(x) THEN PyInt(NumVal(x)) ELSE TypeError
      [] function.name = "ceiling" ->
            IF IsExc(int(x)) THEN int(x)
            ELSE IF PyEq(x, int(x)) THEN int(x)
            ELSE PyInt(int(x).n + 1)
      [] function.name = "floor" -> int(x)
      [] function.name = "size" ->
            IF x.k = "str" THEN PyInt(Len(x.s)) ELSE TypeError
      [] function.name \in {"list", "list_split"} ->
            IF x.k = "str" THEN PyList(Split(x.s, ","))
            ELSE Exc("AttributeError", "object has no attribute split", <<>>)
      [] OTHER -> Exc("NotModelled", function.name, <<>>)

-----------------------------------------------------------------------------
(* Expression.evaluate                                                     *)

\* Field.evaluate: expressions.py raises KeyError for an absent field,
\* inventory.py returns data.get(field_name)
FieldEvaluate(rev, field_name, record) ==
    IF field_name \in DOMAIN record THEN record[field_name]
    ELSE IF rev = Package
         THEN Exc("KeyError", "Field not found in data", field_name)
         ELSE None

\* what an exception raised inside BinaryOperator.evaluate leaves it as:
\* expressions.py catches Exception and raises ValueError from it,
\* inventory.py lets it through
Raised(rev, e) ==
    IF rev = Package
    THEN Exc("ValueError", "Error in evaluating binary operator", e.type)
    ELSE e

\* the same for UnaryOperator.evaluate, lines 23-27
RaisedUnary(rev, e) ==
    IF rev = Package
    THEN Exc("ValueError", "Error in evaluating unary operator", e.type)
    ELSE e

RECURSIVE Evaluate(_, _, _)
Evaluate(rev, expr, record) ==
    CASE expr.node = "Value" -> expr.value
      [] expr.node = "Field" -> FieldEvaluate(rev, expr.field_name, record)
      [] expr.node = "UnaryOperator" ->
            LET operand_result == Evaluate(rev, expr.operand, record)
            IN IF IsExc(operand_result) THEN RaisedUnary(rev, operand_result)
               ELSE LET v == Apply1(expr.operator_func, operand_result)
                    IN IF IsExc(v) THEN RaisedUnary(rev, v) ELSE v
      [] expr.node = "BinaryOperator" ->
            LET left_result == Evaluate(rev, expr.left, record)
            IN IF IsExc(left_result) THEN Raised(rev, left_result)
               ELSE LET right_result == Evaluate(rev, expr.right, record)
                    IN IF IsExc(right_result) THEN Raised(rev, right_result)
                       ELSE LET v == Apply2(expr.operator_func,
                                            left_result, right_result)
                            IN IF IsExc(v) THEN Raised(rev, v) ELSE v

\* the call of operator_func, line 44
Call(operator_func) == [node |-> "call", operator_func |-> operator_func]

\* the evaluate() calls that expr.evaluate(record) makes, itself first, and
\* the operator_func calls, in the order they are made: left.evaluate at
\* line 42, right.evaluate at line 43 unless that raised, operator_func at
\* line 44 unless either raised; for a UnaryOperator operand.evaluate at
\* line 24 and operator_func at line 25
RECURSIVE Calls(_, _, _)
CallsShortCircuit(rev, expr, record) ==
    <<expr>> \o
    IF expr.node = "BinaryOperator"
    THEN Calls(rev, expr.left, record) \o
         IF \/ IsExc(Evaluate(rev, expr.left, record))
            \/ /\ expr.operator_func = "operator.and_"
               /\ Evaluate(rev, expr.left, record) = PyBool(FALSE)
         THEN <<>>
         ELSE Calls(rev, expr.right, record) \o
              IF IsExc(Evaluate(rev, expr.right, record)) THEN <<>>
              ELSE <<Call(expr.operator_func)>>
    ELSE <<>>

Calls(rev, expr, record) ==
    <<expr>> \o
    IF expr.node = "BinaryOperator"
    THEN Calls(rev, expr.left, record) \o
         IF IsExc(Evaluate(rev, expr.left, record)) THEN <<>>
         ELSE Calls(rev, expr.right, record) \o
              IF IsExc(Evaluate(rev, expr.right, record)) THEN <<>>
              ELSE <<Call(expr.operator_func)>>
    ELSE IF expr.node = "UnaryOperator"
    THEN Calls(rev, expr.operand, record) \o
         IF IsExc(Evaluate(rev, expr.operand, record)) THEN <<>>
         ELSE <<Call(expr.operator_func)>>
    ELSE <<>>

\* the record after expr.evaluate(record): the evaluate methods only read
\* it, with `in` and [] in expressions.py and with .get in inventory.py
DataAfterPopped(rev, expr, record) ==
    IF expr.node = "Field"
    THEN [f \in DOMAIN record \ {expr.field_name} |-> record[f]]
    ELSE record

DataAfter(rev, expr, record) == record

\* the expression after expr.evaluate(record): no evaluate method assigns
\* to an attribute of self
ExpressionAfter(rev, expr, record) == expr

-----------------------------------------------------------------------------
(* The parser as a machine: one frame per call under way                   *)

\* parse_expression(precedence) about to run line 21
ExprFrame(p) ==
    [fn |-> "parse_expression", pc |-> "operand", precedence |-> p,
     left |-> None, token |-> None]

\* parse_operand waiting at line 36 for the parenthesized expression
ParenFrame == [fn |-> "parse_operand", pc |-> "paren"]

\* parse waiting at line 15; caller is the entry point that called it
ParseFrame(caller) == [fn |-> "parse", caller |-> caller]

Top(stk) == stk[Len(stk)]

Pop(stk) == SubSeq(stk, 1, Len(stk) - 1)

SetTop(stk, frame) == [stk EXCEPT ![Len(stk)] = frame]

\* the state a step leaves: still parsing, raised, or returned
Going(stk, cur) ==
    [phase |-> "parsing", stack |-> stk, current |-> cur,
     expression |-> None, error |-> None, result |-> None]

Raise(cur, e) ==
    [phase |-> "raised", stack |-> <<>>, current |-> cur,
     expression |-> None, error |-> e, result |-> None]

\* expr.evaluate(record): the value it returns or the exception it raises
Evaluated(rev, cur, expr, record) ==
    LET v == Evaluate(rev, expr, record)
    IN [phase |-> IF IsExc(v) THEN "raised" ELSE "returned",
        stack |-> <<>>, current |-> cur,
        expression |-> ExpressionAfter(rev, expr, record),
        error |-> IF IsExc(v) THEN v ELSE None,
        result |-> IF IsExc(v) THEN None ELSE v]

\* parse_operand returns expr to line 21 of the parse_expression under it
OperandReturns(stk, cur, expr) ==
    Going(SetTop(stk, [Top(stk) EXCEPT !.left = expr, !.pc = "loop"]), cur)

\* Parser.parse, lines 16-18, and what its caller does with the expression:
\* ExpressionFilter.evaluate evaluates it against its data (line 43)
ParseReturns(rev, caller, toks, cur, expr, record) ==
    IF has_tokens(toks, cur)
    THEN Raise(cur, Exc("ValueError", "Invalid expression", <<>>))
    ELSE IF caller = "Parser.parse"
         THEN [phase |-> "returned", stack |-> <<>>, current |-> cur,
               expression |-> None, error |-> None, result |-> expr]
    ELSE Evaluated(rev, cur, expr, record)

\* parse_expression returns expr (line 26 or 30): the frame is popped and
\* its caller goes on, parse at line 16, parse_expression at line 29,
\* parse_operand at line 37
ExprReturns(rev, stk, toks, cur, expr, record) ==
    LET rest == Pop(stk)
        caller == Top(rest)
    IN CASE caller.fn = "parse" ->
                ParseReturns(rev, caller.caller, toks, cur, expr, record)
         [] caller.fn = "parse_expression" ->
                LET node == create_operator(rev, caller.token, caller.left, expr)
                IN IF IsExc(node) THEN Raise(cur, node)
                   ELSE Going(SetTop(rest, [caller EXCEPT !.left = node,
                                                          !.pc = "loop"]), cur)
         [] caller.fn = "parse_operand" ->
                IF ~has_tokens(toks, cur) \/ peek(toks, cur) # <<")">>
                THEN Raise(cur, Exc("ValueError", "Missing closing parenthesis", <<>>))
                ELSE OperandReturns(Pop(rest), next(toks, cur), expr)

\* Parser.parse_operand, lines 33-50, called from line 21
ParseOperandStep(stk, toks, cur) ==
    LET token == peek(toks, cur)
    IN IF ~has_tokens(toks, cur)
       \* the token is None: None == "(" is False, then None.startswith
       THEN Raise(cur, Exc("AttributeError", "NoneType has no attribute startswith", <<>>))
       ELSE IF token = <<"(">>
       THEN Going(stk \o <<ParenFrame, ExprFrame(0)>>, next(toks, cur))
       ELSE IF StartsWithQuote(token)
       THEN OperandReturns(stk, cur, Value(PyStr(Strip(token, {DQ, SQ}))))
       ELSE IF isnumeric(token)
       THEN OperandReturns(stk, cur, Value(PyFloat(ToNumber(token))))
       ELSE IF IsIdentifier(token)
       THEN OperandReturns(stk, cur, Field(token))
       ELSE IF isalnum(token)
       THEN OperandReturns(stk, cur, Value(PyStr(token)))
       ELSE Raise(cur, Exc("ValueError", "Invalid token", token))

\* Parser.parse_expression, one pass of the loop of lines 22-30
ParseLoopStep(rev, stk, toks, cur, record) ==
    LET frame == Top(stk)
        token == peek(toks, cur)
    IN IF ~has_tokens(toks, cur)
       THEN ExprReturns(rev, stk, toks, cur, frame.left, record)
       ELSE IF get_precedence(token) < frame.precedence
       THEN ExprReturns(rev, stk, toks, cur, frame.left, record)
       ELSE Going(SetTop(stk, [frame EXCEPT !.pc = "right", !.token = token])
                    \o <<ExprFrame(get_precedence(token) + 1)>>,
                  next(toks, cur))

\* the parser run from a step to the end of the call
RECURSIVE RunParser(_, _, _, _)
RunParser(rev, toks, record, st) ==
    IF st.phase # "parsing" THEN st
    ELSE IF Top(st.stack).pc = "operand"
    THEN RunParser(rev, toks, record,
                   ParseOperandStep(st.stack, toks, st.current))
    ELSE RunParser(rev, toks, record,
                   ParseLoopStep(rev, st.stack, toks, st.current, record))

\* ExpressionFilter(record).evaluate(text), inventory.py lines 36-43, as
\* one call: how it ends
FilterOutcome(text, record) ==
    RunParser(SingleFile, Tokenize(Strip(text, {DQ})), record,
              Going(<<ParseFrame("ExpressionFilter.evaluate"), ExprFrame(0)>>, 0))

\* bool(v) as the if of list_hosts takes it
Truthy(v) ==
    CASE v.k = "bool" -> v.b
      [] v.k \in {"int", "float"} -> v.n # 0
      [] v.k = "str" -> v.s # <<>>
      [] v.k = "list" -> v.items # <<>>
      [] v.k = "dict" -> DOMAIN v.items # {}
      [] v.k = "none" -> FALSE
      [] OTHER -> TRUE

-----------------------------------------------------------------------------
(* FunctionFactory of expression_evaluation/factories.py                   *)

\* a function object: its __name__ and the module that defines it
Function(name, module) == [name |-> name, module |-> module]

\* the names registered by the decorators of lines 33-91
RegisteredAtImport ==
    {"round", "ceiling", "floor", "startswith", "endswith", "glob", "member",
     "size", "conjunction", "keys", "list_split", "equals", "extract_keys",
     "list"}

\* FunctionFactory.functions once the module is imported
FunctionsAtImport ==
    [name \in RegisteredAtImport |-> Function(name, "factories")]

\* FunctionFactory.register(func), lines 18-21: the registry it leaves and
\* how the call ends
registerOverwriting(funcs, func) ==
    [functions |-> [name \in DOMAIN funcs \cup {func.name} |->
                        IF name = func.name THEN func ELSE funcs[name]],
     phase |-> "returned", error |-> None, result |-> func]

register(funcs, func) ==
    IF func.name \in DOMAIN funcs
    THEN [functions |-> funcs, phase |-> "raised",
          error |-> Exc("ValueError", "Function is already registered",
                        func.name),
          result |-> None]
    ELSE [functions |-> [name \in DOMAIN funcs \cup {func.name} |->
                            IF name = func.name THEN func ELSE funcs[name]],
          phase |-> "returned", error |-> None, result |-> func]

\* FunctionFactory.functions of inventory.py, lines 126-139
FunctionsSingleFile ==
    [name \in {"round", "ceiling", "floor", "startswith", "endswith", "glob",
               "member", "size", "conjunction", "keys", "list", "equals"}
        |-> Function(name, "inventory")]

\* FunctionFactory.create_function(function_name, *args) over the registry
\* funcs: the node it returns or the exception it raises
create_function(funcs, function_name, arguments) ==
    IF function_name \in DOMAIN funcs
    THEN IF arguments = <<>>
         THEN Exc("IndexError", "tuple index out of range", <<>>)
         ELSE UnaryOperator(arguments[1], funcs[function_name])
    ELSE Exc("ValueError", "Function not supported", function_name)

-----------------------------------------------------------------------------
(* parse_host_data: main.py HostDataParser, inventory.py parse_host_data   *)
(*                                                                         *)
(* json.loads and ET.fromstring are modelled on the texts that are, or     *)
(* are not, a flat JSON object of strings and a one-level XML element      *)
(* without attributes; a text that is another JSON value or a deeper XML   *)
(* document is outside the model.                                          *)

Blank == {" ", "\t", "\n", "\r"}

\* the characters that stand for themselves in a JSON string and in XML
\* character data
PlainChars == Letters \cup Digits \cup {" ", "_", "=", "{", "}", ":", ","}

NoParse == [ok |-> FALSE]

\* the items of {}
NoItems == [key \in {} |-> None]

Parsed(value, after) == [ok |-> TRUE, value |-> value, next |-> after]

\* the first position from i on where s has a character of chars, or
\* Len(s) + 1
Find(s, i, chars) ==
    IF \E j \in i..Len(s) : s[j] \in chars
    THEN CHOOSE j \in i..Len(s) :
            s[j] \in chars /\ \A h \in i..(j - 1) : s[h] \notin chars
    ELSE Len(s) + 1

\* the first position from i on that is not blank, or Len(s) + 1
SkipBlank(s, i) ==
    IF \E j \in i..Len(s) : s[j] \notin Blank
    THEN CHOOSE j \in i..Len(s) :
            s[j] \notin Blank /\ \A h \in i..(j - 1) : s[h] \in Blank
    ELSE Len(s) + 1

\* s has the text lit at position i
Has(s, i, lit) ==
    i + Len(lit) - 1 <= Len(s) /\ SubSeq(s, i, i + Len(lit) - 1) = lit

\* a JSON string at position i
JsonString(s, i) ==
    IF ~Has(s, i, <<DQ>>) THEN NoParse
    ELSE LET j == Find(s, i + 1, {DQ})
         IN IF j <= Len(s) /\ \A h \in (i + 1)..(j - 1) : s[h] \in PlainChars \cup {"<", ">", "/"}
            THEN Parsed(SubSeq(s, i + 1, j - 1), j + 1)
            ELSE NoParse

\* the members of a JSON object from the key at position i to the closing
\* brace; of two members with one key the later stays
RECURSIVE JsonMembers(_, _)
JsonMembers(s, i) ==
    LET key == JsonString(s, i)
    IN IF ~key.ok THEN NoParse
       ELSE LET colon == SkipBlank(s, key.next)
                val == JsonString(s, SkipBlank(s, colon + 1))
            IN IF ~Has(s, colon, <<":">>) \/ ~val.ok THEN NoParse
               ELSE LET e == SkipBlank(s, val.next)
                        member == key.value :> PyStr(val.value)
                    IN IF Has(s, e, <<"}">>) THEN Parsed(member, e + 1)
                       ELSE IF ~Has(s, e, <<",">>) THEN NoParse
                       ELSE LET rest == JsonMembers(s, SkipBlank(s, e + 1))
                            IN IF ~rest.ok THEN NoParse
                               ELSE Parsed(rest.value @@ member, rest.next)

\* json.loads(s)
json_loads(s) ==
    LET i == SkipBlank(s, 1)
        j == SkipBlank(s, i + 1)
        obj == IF ~Has(s, i, <<"{">>) THEN NoParse
               ELSE IF Has(s, j, <<"}">>) THEN Parsed(NoItems, j + 1)
               ELSE JsonMembers(s, j)
    IN IF obj.ok /\ SkipBlank(s, obj.next) > Len(s)
       THEN PyDict(obj.value)
       ELSE Exc("JSONDecodeError", "not a JSON document", <<>>)

\* an XML name at position i
XmlName(s, i) ==
    LET e == Find(s, i, {" ", "\t", "\n", "\r", "<", ">", "/", "=", DQ})
    IN IF /\ i <= Len(s)
          /\ s[i] \in Letters
          /\ \A h \in i..(e - 1) : s[h] \in WordChars
       THEN Parsed(SubSeq(s, i, e - 1), e)
       ELSE NoParse

\* the characters of XML character data that stand for themselves
XmlChars == PlainChars \cup Blank \cup {">", "/", DQ}

\* the position after the end tag of name at position t, blanks allowed
\* before its >, or 0 when s has no such end tag there
XmlClose(s, t, name) ==
    LET e == SkipBlank(s, t + 2 + Len(name))
    IN IF Has(s, t, <<"<", "/">> \o name) /\ Has(s, e, <<">">>)
       THEN e + 1
       ELSE 0

\* a child element at position i that holds character data only: its tag
\* and its text, which is None when there is none
XmlChild(s, i) ==
    LET tag == IF Has(s, i, <<"<">>) THEN XmlName(s, i + 1) ELSE NoParse
    IN IF ~tag.ok THEN NoParse
       ELSE LET g == SkipBlank(s, tag.next)
            IN IF Has(s, g, <<"/", ">">>)
               THEN Parsed(tag.value :> None, g + 2)
               ELSE IF ~Has(s, g, <<">">>) THEN NoParse
               ELSE LET t == Find(s, g + 1, {"<"})
                        text == SubSeq(s, g + 1, t - 1)
                    IN IF /\ XmlClose(s, t, tag.value) # 0
                          /\ \A h \in 1..Len(text) : text[h] \in XmlChars
                       THEN Parsed(tag.value :> (IF text = <<>> THEN None
                                                 ELSE PyStr(text)),
                                   XmlClose(s, t, tag.value))
                       ELSE NoParse

\* the children of the element called name from position i to its end
\* tag, as {elem.tag: elem.text for elem in root} collects them: of two
\* children with one tag the later stays
RECURSIVE XmlChildren(_, _, _)
XmlChildren(s, i, name) ==
    LET t == Find(s, i, {"<"})
    IN IF \E h \in i..(t - 1) : s[h] \notin XmlChars THEN NoParse
       ELSE IF XmlClose(s, t, name) # 0
       THEN Parsed(NoItems, XmlClose(s, t, name))
       ELSE LET child == XmlChild(s, t)
            IN IF ~child.ok THEN NoParse
               ELSE LET rest == XmlChildren(s, child.next, name)
                    IN IF ~rest.ok THEN NoParse
                       ELSE Parsed(rest.value @@ child.value, rest.next)

\* {elem.tag: elem.text for elem in ET.fromstring(s)}
fromstring(s) ==
    LET i == SkipBlank(s, 1)
        name == IF Has(s, i, <<"<">>) THEN XmlName(s, i + 1) ELSE NoParse
        g == IF name.ok THEN SkipBlank(s, name.next) ELSE 0
        root == IF ~name.ok THEN NoParse
                ELSE IF Has(s, g, <<"/", ">">>)
                THEN Parsed(NoItems, g + 2)
                ELSE IF Has(s, g, <<">">>)
                THEN XmlChildren(s, g + 1, name.value)
                ELSE NoParse
    IN IF root.ok /\ SkipBlank(s, root.next) > Len(s)
       THEN PyDict(root.value)
       ELSE Exc("ParseError", "not well-formed", <<>>)

\* str.split(): the runs between blanks
RECURSIVE SplitBlank(_)
SplitBlank(s) ==
    LET i == SkipBlank(s, 1)
        e == Find(s, i, Blank)
    IN IF i > Len(s) THEN <<>>
       ELSE <<SubSeq(s, i, e - 1)>> \o SplitBlank(SubSeq(s, e, Len(s)))

\* item.split("=", 1)
SplitAtEquals(item) ==
    LET e == Find(item, 1, {"="})
    IN IF e > Len(item) THEN <<item>>
       ELSE <<SubSeq(item, 1, e - 1), SubSeq(item, e + 1, Len(item))>>

\* dict(pairs): of two pairs with one key the later stays
RECURSIVE DictItems(_)
DictItems(pairs) ==
    IF pairs = <<>> THEN NoItems
    ELSE DictItems(Tail(pairs)) @@ (Head(pairs)[1] :> PyStr(Head(pairs)[2]))

\* dict(item.split("=", 1) for item in data.split())
parse_key_value(text) ==
    LET pairs == [i \in 1..Len(SplitBlank(text)) |->
                    SplitAtEquals(SplitBlank(text)[i])]
    IN IF \E i \in 1..Len(pairs) : Len(pairs[i]) # 2
       THEN Exc("ValueError", "dictionary update sequence element", <<>>)
       ELSE PyDict(DictItems(pairs))

\* HostDataParser.parse_json, main.py lines 26-30
parse_json(text) ==
    IF IsExc(json_loads(text)) THEN PyDict(NoItems) ELSE json_loads(text)

\* HostDataParser.parse_xml, main.py lines 33-38
parse_xml(text) ==
    IF IsExc(fromstring(text)) THEN PyDict(NoItems) ELSE fromstring(text)

\* HostDataParser.parse_host_data, main.py lines 45-53: the first parser
\* whose result is not empty; parse_key_value is the last and may raise
HostDataParser_parse_host_data(host_data_str) ==
    IF Truthy(parse_json(host_data_str)) THEN parse_json(host_data_str)
    ELSE IF Truthy(parse_xml(host_data_str)) THEN parse_xml(host_data_str)
    ELSE IF IsExc(parse_key_value(host_data_str))
    THEN parse_key_value(host_data_str)
    ELSE IF Truthy(parse_key_value(host_data_str))
    THEN parse_key_value(host_data_str)
    ELSE PyDict(NoItems)

\* sys.exit(1)
SystemExit == Exc("SystemExit", "1", <<>>)

\* parse_host_data, inventory.py lines 483-495: the format is told by the
\* braces and the angle brackets, and any exception ends the process
parse_host_data(host_data_str) ==
    LET parsed ==
            IF /\ Has(host_data_str, 1, <<"{">>)
               /\ Has(host_data_str, Len(host_data_str), <<"}">>)
            THEN json_loads(host_data_str)
            ELSE IF /\ \E j \in 1..Len(host_data_str) : host_data_str[j] = "<"
                    /\ \E j \in 1..Len(host_data_str) : host_data_str[j] = ">"
            THEN fromstring(host_data_str)
            ELSE parse_key_value(host_data_str)
    IN IF IsExc(parsed) THEN SystemExit ELSE parsed

-----------------------------------------------------------------------------
(* Inputs                                                                  *)

\* the characters generated filter texts are made of
ModelChars == {"a", "i", "s", "1", " ", "&", "(", ")", "@"}

Texts(n) == UNION {[1..m -> ModelChars] : m \in 0..n}

\* a && b
TextAandB == <<"a", " ", "&", "&", " ", "b">>

\* a || b && c
TextOrAnd == <<"a", " ", "|", "|", " ", "b", " ", "&", "&", " ", "c">>

\* (a || b) && c
TextParen ==
    <<"(", "a", " ", "|", "|", " ", "b", ")", " ", "&", "&", " ", "c">>

\* role == "web" && count >= 2
TextRole ==
    <<"r", "o", "l", "e", " ", "=", "=", " ", DQ, "w", "e", "b", DQ, " ",
      "&", "&", " ", "c", "o", "u", "n", "t", " ", ">", "=", " ", "2">>

\* role ==
TextRoleEq == <<"r", "o", "l", "e", " ", "=", "=">>

\* a @ b
TextAt == <<"a", " ", "@", " ", "b">>

\* status == "in maintenance"
TextStatus ==
    <<"s", "t", "a", "t", "u", "s", " ", "=", "=", " ", DQ, "i", "n", " ",
      "m", "a", "i", "n", "t", "e", "n", "a", "n", "c", "e", DQ>>

\* !a
TextNot == <<"!", "a">>

NamedTexts ==
    {TextAandB, TextOrAnd, TextParen, TextRole, TextRoleEq, TextAt, TextStatus,
     TextNot}

FieldA == <<"a">>

FieldB == <<"b">>

FieldC == <<"c">>

FieldRole == <<"r", "o", "l", "e">>

FieldCount == <<"c", "o", "u", "n", "t">>

\* {role: "web", count: 3}
RecordWeb == (FieldRole :> PyStr(<<"w", "e", "b">>)) @@ (FieldCount :> PyInt(3))

\* {role: "db", count: 5}
RecordDb == (FieldRole :> PyStr(<<"d", "b">>)) @@ (FieldCount :> PyInt(5))

\* {}
EmptyRecord == [f \in {} |-> None]

\* the records over the Boolean fields a, b, c
BoolRecords == [{FieldA, FieldB, FieldC} -> {PyBool(TRUE), PyBool(FALSE)}]

Records == {RecordWeb, RecordDb, EmptyRecord} \cup BoolRecords

\* the expressions of at most d operators above one another
LeafExpressions ==
    {Field(FieldA), Field(FieldCount), Value(PyBool(TRUE)), Value(PyFloat(2))}

DrawnFuncs == {"operator.and_", "operator.or_", "operator.eq", "operator.ge"}

\* the operands of =~
MatchOperands ==
    {Field(FieldRole), Value(PyStr(<<"w", "e", "b">>)),
     Value(PyStr(<<"w", "e">>)), Value(PyFloat(2))}

\* left =~ right as create_operator builds it
MatchExpressions ==
    {create_operator(rev, <<"=", "~">>, left, right) :
        rev \in Revisions, left \in MatchOperands, right \in MatchOperands}

RECURSIVE Expressions(_)
Expressions(d) ==
    IF d = 0 THEN LeafExpressions
    ELSE LET sub == Expressions(d - 1)
         IN sub \cup {BinaryOperator(l, r, f) : l \in sub, r \in sub, f \in DrawnFuncs}

\* the texts handed to Parser() directly
ParserTexts == Texts(MaxLen) \cup NamedTexts

\* the filter specifications handed to ExpressionFilter.evaluate
FilterTexts == Texts(MaxFilterLen) \cup NamedTexts

-----------------------------------------------------------------------------
(* The machine                                                             *)

Init ==
    /\ phase = "idle"
    /\ entry = "none"
    /\ revision = Package
    /\ specification = <<>>
    /\ data = EmptyRecord
    /\ tokens = <<>>
    /\ current = 0
    /\ stack = <<>>
    /\ expression = None
    /\ error = None
    /\ result = None
    /\ first = None
    /\ calls = 0
    /\ log = <<>>
    /\ args = <<>>
    /\ functions = FunctionsAtImport
    /\ etcd = <<>>
    /\ hosts = <<>>
    /\ index = 0
    /\ instance = None
    /\ formatters = [name \in {} |-> None]
    /\ store = [name \in {} |-> None]
    /\ puts = <<>>
    /\ clients = [c \in {1, 2} |-> [pc |-> "start"]]
    /\ inventory = [name \in {} |-> None]

Becomes(step) ==
    \E st \in {step} :
    /\ phase' = st.phase
    /\ stack' = st.stack
    /\ current' = st.current
    /\ expression' = st.expression
    /\ error' = st.error
    /\ result' = st.result

\* Parser(specification).parse() up to the call of line 15
ParserParse ==
    /\ phase = "idle"
    /\ \E rev \in Revisions, text \in ParserTexts :
        /\ entry' = "Parser.parse"
        /\ revision' = rev
        /\ specification' = text
        /\ tokens' = Tokenize(text)
        /\ Becomes(Going(<<ParseFrame("Parser.parse"), ExprFrame(0)>>, 0))
        /\ UNCHANGED <<data, evaluation>>

\* ExpressionFilter(record).evaluate(text), lines 36-40, up to the call of
\* parse_expression
ExpressionFilterEvaluate ==
    /\ phase = "idle"
    /\ \E text \in FilterTexts, record \in Records :
        /\ entry' = "ExpressionFilter.evaluate"
        /\ revision' = SingleFile
        /\ data' = record
        /\ specification' = Strip(text, {DQ})
        /\ tokens' = Tokenize(Strip(text, {DQ}))
        /\ Becomes(Going(<<ParseFrame("ExpressionFilter.evaluate"), ExprFrame(0)>>, 0))
        /\ UNCHANGED evaluation

\* line 21: parse_expression calls parse_operand
ParseOperand ==
    /\ phase = "parsing"
    /\ Top(stack).fn = "parse_expression"
    /\ Top(stack).pc = "operand"
    /\ Becomes(ParseOperandStep(stack, tokens, current))
    /\ UNCHANGED <<entry, revision, specification, data, tokens, evaluation>>

\* lines 22-30: one pass of the loop, or the return
ParseExpressionLoop ==
    /\ phase = "parsing"
    /\ Top(stack).fn = "parse_expression"
    /\ Top(stack).pc = "loop"
    /\ Becomes(ParseLoopStep(revision, stack, tokens, current, data))
    /\ UNCHANGED <<entry, revision, specification, data, tokens, evaluation>>

\* expr.evaluate(record) on an expression built from the node classes
ExpressionEvaluate ==
    /\ phase = "idle"
    /\ \E rev \in Revisions, record \in Records,
          expr \in Expressions(MaxDepth) \cup MatchExpressions :
        /\ entry' = "Expression.evaluate"
        /\ revision' = rev
        /\ data' = DataAfter(rev, expr, record)
        /\ Becomes(Evaluated(rev, 0, expr, record))
        /\ first' = [expression |-> expr, data |-> record,
                     outcome |-> Evaluate(rev, expr, record)]
        /\ calls' = 1
        /\ log' = Calls(rev, expr, record)
        /\ UNCHANGED <<specification, tokens, args, functions, listing>>

\* expression.evaluate(data) once more, on the same objects
ExpressionEvaluateAgain ==
    /\ phase \in {"returned", "raised"}
    /\ entry = "Expression.evaluate"
    /\ calls = 1
    /\ data' = DataAfter(revision, expression, data)
    /\ Becomes(Evaluated(revision, 0, expression, data))
    /\ calls' = 2
    /\ log' = Calls(revision, expression, data)
    /\ UNCHANGED <<entry, revision, specification, tokens, first, args,
                   functions, listing>>

\* the symbols get_precedence is asked about: those of its table and two
\* it lacks
PrecedenceSymbols == DOMAIN precedence \cup {<<"+">>, <<"a">>}

\* Parser.get_precedence(operator_symbol)
ParserGetPrecedence ==
    /\ phase = "idle"
    /\ \E rev \in Revisions, operator_symbol \in PrecedenceSymbols :
        /\ entry' = "Parser.get_precedence"
        /\ revision' = rev
        /\ args' = <<operator_symbol>>
        /\ phase' = "returned"
        /\ result' = PyInt(get_precedence(operator_symbol))
        /\ UNCHANGED <<specification, data, tokens, current, stack,
                       expression, error, first, calls, log, functions,
                       listing>>

\* the symbols and operands create_operator is called with
CreatedSymbols == {<<"!">>, <<"&", "&">>, <<"@">>}

CreatedOperands == {Field(FieldA), Value(PyBool(TRUE))}

\* OperatorFactory.create_operator(operator_symbol, left, right)
OperatorFactoryCreateOperator ==
    /\ phase = "idle"
    /\ \E rev \in Revisions, operator_symbol \in CreatedSymbols,
          left \in CreatedOperands, right \in CreatedOperands :
        \E created \in {create_operator(rev, operator_symbol, left, right)} :
            /\ entry' = "OperatorFactory.create_operator"
            /\ revision' = rev
            /\ args' = <<operator_symbol, left, right>>
            /\ phase' = IF IsExc(created) THEN "raised" ELSE "returned"
            /\ error' = IF IsExc(created) THEN created ELSE None
            /\ result' = IF IsExc(created) THEN None ELSE created
            /\ UNCHANGED <<specification, data, tokens, current, stack,
                           expression, first, calls, log, functions, listing>>

Next ==
    \/ ParserParse
    \/ ExpressionFilterEvaluate
    \/ ParseOperand
    \/ ParseExpressionLoop
    \/ ExpressionEvaluate
    \/ ExpressionEvaluateAgain
    \/ ParserGetPrecedence
    \/ OperatorFactoryCreateOperator

Spec == Init /\ [][Next]_vars

\* the parser alone.  The interpreter runs the call under way: while
\* parse_operand or the loop of parse_expression has a step to take, it is
\* taken.
ParseNext ==
    \/ ParserParse
    \/ ExpressionFilterEvaluate
    \/ ParseOperand
    \/ ParseExpressionLoop

ParseSpec ==
    /\ Init
    /\ [][ParseNext]_vars
    /\ WF_vars(ParseOperand)
    /\ WF_vars(ParseExpressionLoop)

-----------------------------------------------------------------------------
(* The function registry as a machine                                      *)

\* the names functions are registered under: two of the module's own and
\* two new ones
RegisterNames == {"round", "size", "double", "half"}

\* the modules that define the functions handed to register
Modules == {"factories", "plugin", "site"}

\* no call is under way
Idle == phase \in {"idle", "returned", "raised"}

\* a call that evaluates nothing leaves no evaluation to look at
NothingEvaluated ==
    /\ expression' = None
    /\ data' = EmptyRecord
    /\ first' = None
    /\ calls' = 0
    /\ log' = <<>>

\* @FunctionFactory.register applied to a function
FunctionFactoryRegister ==
    /\ Idle
    /\ \E name \in RegisterNames, module \in Modules :
        \E st \in {register(functions, Function(name, module))} :
            /\ entry' = "FunctionFactory.register"
            /\ revision' = Package
            /\ args' = <<Function(name, module)>>
            /\ functions' = st.functions
            /\ phase' = st.phase
            /\ error' = st.error
            /\ result' = st.result
    /\ NothingEvaluated
    /\ UNCHANGED <<specification, tokens, current, stack, listing>>

\* the most arguments a call is written with
MaxArgs == 2

\* the names create_function is asked for
CreateNames == {"round", "size", "startswith", "double", "missing"}

\* the argument expressions of a call
ArgumentExpressions ==
    {Field(FieldRole), Value(PyStr(<<"w", "e">>)), Value(PyFloat(2))}

ArgumentLists == UNION {[1..n -> ArgumentExpressions] : n \in 0..MaxArgs}

\* FunctionFactory.create_function(function_name, *args)
FunctionFactoryCreateFunction ==
    /\ Idle
    /\ \E rev \in Revisions, function_name \in CreateNames,
          arguments \in ArgumentLists :
        \E node \in {create_function(
                        IF rev = Package THEN functions ELSE FunctionsSingleFile,
                        function_name, arguments)} :
            /\ entry' = "FunctionFactory.create_function"
            /\ revision' = rev
            /\ args' = <<function_name>> \o arguments
            /\ phase' = IF IsExc(node) THEN "raised" ELSE "returned"
            /\ error' = IF IsExc(node) THEN node ELSE None
            /\ result' = IF IsExc(node) THEN None ELSE node
    /\ NothingEvaluated
    /\ UNCHANGED <<specification, tokens, current, stack, functions, listing>>

\* the node create_function returned is evaluated against a record
UnaryOperatorEvaluate ==
    /\ phase = "returned"
    /\ entry = "FunctionFactory.create_function"
    /\ \E record \in {RecordWeb, RecordDb, EmptyRecord} :
        /\ entry' = "UnaryOperator.evaluate"
        /\ data' = DataAfter(revision, result, record)
        /\ Becomes(Evaluated(revision, 0, result, record))
        /\ first' = [expression |-> result, data |-> record,
                     outcome |-> Evaluate(revision, result, record)]
        /\ calls' = 1
        /\ log' = Calls(revision, result, record)
    /\ UNCHANGED <<revision, specification, tokens, args, functions, listing>>

FunctionNext ==
    \/ FunctionFactoryRegister
    \/ FunctionFactoryCreateFunction
    \/ UnaryOperatorEvaluate

FunctionSpec == Init /\ [][FunctionNext]_vars

-----------------------------------------------------------------------------
(* HostInventory.list_hosts of inventory.py as a machine                   *)

\* the most hosts etcd holds
MaxHosts == 2

\* the host data stored, as json.loads gives them back
StoredData ==
    {RecordWeb, RecordDb, (FieldA :> PyBool(TRUE)), (FieldA :> PyBool(FALSE))}

\* what get_prefix(base_key) yields: host names and their data
Stores ==
    UNION {[1..n -> [host_name : {"h"}, host_data : StoredData]] :
              n \in 0..MaxHosts}

\* the filter specifications list_hosts is called with
ListFilters == {<<>>, <<"a">>, TextAandB, TextRole, TextRoleEq, TextStatus}

\* list_hosts(filter_specification), line 321, before the loop
HostInventoryListHosts ==
    /\ phase = "idle"
    /\ \E stored \in Stores, text \in ListFilters :
        /\ entry' = "HostInventory.list_hosts"
        /\ revision' = SingleFile
        /\ specification' = text
        /\ etcd' = stored
        /\ hosts' = <<>>
        /\ index' = 0
        /\ phase' = "listing"
    /\ UNCHANGED <<data, tokens, current, stack, expression, error, result,
                   first, calls, log, args, functions, instance,
                   formatters,
                   storage>>

\* one round of the loop, lines 322-326, or line 327 when the hosts are
\* through; an exception of _filter_host reaches handle_exceptions, lines
\* 244-246, which logs it and calls sys.exit(1)
ListHostsLoop ==
    /\ phase = "listing"
    /\ IF index = Len(etcd)
       THEN /\ phase' = "returned"
            /\ result' = PyList(hosts)
            /\ UNCHANGED <<data, error, hosts, index>>
       ELSE \E host \in {etcd[index + 1]} :
            \E st \in {FilterOutcome(specification, host.host_data)} :
                /\ data' = host.host_data
                /\ index' = index + 1
                /\ IF st.phase = "raised"
                   THEN /\ phase' = "exited"
                        /\ error' = st.error
                        /\ UNCHANGED <<hosts, result>>
                   ELSE /\ phase' = "listing"
                        /\ hosts' = IF Truthy(st.result)
                                     THEN Append(hosts, host)
                                     ELSE hosts
                        /\ UNCHANGED <<error, result>>
    /\ UNCHANGED <<entry, revision, specification, tokens, current, stack,
                   expression, first, calls, log, args, functions, etcd,
                   instance, formatters,
                   storage>>

ListNext ==
    \/ HostInventoryListHosts
    \/ ListHostsLoop

ListSpec == Init /\ [][ListNext]_vars

-----------------------------------------------------------------------------
(* parse_host_data as a machine                                            *)

\* the keys of the host data written out, in the order they are written
HostKeys == <<<<"a">>, <<"b">>, <<"c">>>>

\* the values written out in every format, and one that only a key=value
\* item can hold as it stands
HostValues == {<<"x">>, <<"y">>}

KeyValueOnly == {<<"<", "x", ">">>}

\* the mappings over some of the keys, with values of vals
Mappings(vals) ==
    UNION {[keys -> {PyStr(v) : v \in vals}] :
              keys \in SUBSET {HostKeys[i] : i \in 1..Len(HostKeys)}}

\* "a": "x"
JsonMember(key, value) ==
    <<DQ>> \o key \o <<DQ, ":", " ", DQ>> \o value \o <<DQ>>

\* <a>x</a>
XmlElement(key, value) ==
    <<"<">> \o key \o <<">">> \o value \o <<"<", "/">> \o key \o <<">">>

\* a=x
KeyValueItem(key, value) == key \o <<"=">> \o value

\* a member of a mapping in a format, and what stands between two
Written(format, key, value) ==
    CASE format = "json" -> JsonMember(key, value)
      [] format = "xml" -> XmlElement(key, value)
      [] OTHER -> KeyValueItem(key, value)

Between(format) ==
    CASE format = "json" -> <<",", " ">>
      [] format = "xml" -> <<>>
      [] OTHER -> <<" ">>

\* the members of m from the i-th key on, written in a format
RECURSIVE Join(_, _, _)
Join(m, i, format) ==
    IF i > Len(HostKeys) THEN <<>>
    ELSE IF HostKeys[i] \notin DOMAIN m THEN Join(m, i + 1, format)
    ELSE LET rest == Join(m, i + 1, format)
         IN Written(format, HostKeys[i], m[HostKeys[i]].s)
                \o (IF rest = <<>> THEN <<>> ELSE Between(format) \o rest)

\* {"a": "x", "b": "y"}
AsJson(m) == <<"{">> \o Join(m, 1, "json") \o <<"}">>

\* <host><a>x</a><b>y</b></host>
AsXml(m) ==
    <<"<", "h", "o", "s", "t", ">">> \o Join(m, 1, "xml")
        \o <<"<", "/", "h", "o", "s", "t", ">">>

\* a=x b=y
AsKeyValue(m) == Join(m, 1, "key=value")

\* the texts parse_host_data is called with
HostDataTexts ==
    {AsJson(m) : m \in Mappings(HostValues)}
        \cup {AsXml(m) : m \in Mappings(HostValues)}
        \cup {AsKeyValue(m) : m \in Mappings(HostValues \cup KeyValueOnly)}
        \cup {<<"a">>, <<"a", "=", "x", "=", "y">>}

\* HostDataParser.parse_host_data(host_data_str) of main.py
HostDataParserParseHostData ==
    /\ phase = "idle"
    /\ \E host_data_str \in HostDataTexts :
        \E parsed \in {HostDataParser_parse_host_data(host_data_str)} :
            /\ entry' = "HostDataParser.parse_host_data"
            /\ args' = <<host_data_str>>
            /\ phase' = IF IsExc(parsed) THEN "raised" ELSE "returned"
            /\ error' = IF IsExc(parsed) THEN parsed ELSE None
            /\ result' = IF IsExc(parsed) THEN None ELSE parsed
    /\ UNCHANGED <<revision, specification, data, tokens, current, stack,
                   expression, first, calls, log, functions, listing>>

\* parse_host_data(host_data_str) of inventory.py
ParseHostData ==
    /\ phase = "idle"
    /\ \E host_data_str \in HostDataTexts :
        \E parsed \in {parse_host_data(host_data_str)} :
            /\ entry' = "parse_host_data"
            /\ args' = <<host_data_str>>
            /\ phase' = IF IsExc(parsed) THEN "exited" ELSE "returned"
            /\ error' = IF IsExc(parsed) THEN parsed ELSE None
            /\ result' = IF IsExc(parsed) THEN None ELSE parsed
    /\ UNCHANGED <<revision, specification, data, tokens, current, stack,
                   expression, first, calls, log, functions, listing>>

HostDataNext ==
    \/ HostDataParserParseHostData
    \/ ParseHostData

HostDataSpec == Init /\ [][HostDataNext]_vars

-----------------------------------------------------------------------------
(* EtcdClient of etcd_client.py                                            *)

\* config.py
ETCD_DEFAULT_HOST == PyStr(<<"l", "o", "c", "a", "l", "h", "o", "s", "t">>)

ETCD_DEFAULT_PORT == 2379

ETCD_HOSTS_BASE_DIR == PyStr(<<"h", "o", "s", "t", "s", "/">>)

\* Config.ETCD_ALLOW_RECONNECT, which config.py does not set: some value
ETCD_ALLOW_RECONNECT == [k |-> "Config.ETCD_ALLOW_RECONNECT"]

\* x or y
Or(x, y) == IF Truthy(x) THEN x ELSE y

\* a constructor that sets the instance up anew on every call
EtcdClient_newReinitialising(inst, etcd_host, etcd_port, etcd_allow_reconnect, base_dir) ==
    [etcd_host |-> Or(etcd_host, ETCD_DEFAULT_HOST),
     etcd_port |-> Or(etcd_port, PyInt(ETCD_DEFAULT_PORT)),
     etcd_allow_reconnect |-> Or(etcd_allow_reconnect, ETCD_ALLOW_RECONNECT),
     base_dir |-> Or(base_dir, ETCD_HOSTS_BASE_DIR),
     client |-> [host |-> Or(etcd_host, ETCD_DEFAULT_HOST),
                 port |-> Or(etcd_port, PyInt(ETCD_DEFAULT_PORT))]]

\* EtcdClient.__new__, lines 22-29, called while _instance is inst: the
\* object it leaves in _instance and returns
EtcdClient_new(inst, etcd_host, etcd_port, etcd_allow_reconnect, base_dir) ==
    IF inst = None
    THEN [etcd_host |-> Or(etcd_host, ETCD_DEFAULT_HOST),
          etcd_port |-> Or(etcd_port, PyInt(ETCD_DEFAULT_PORT)),
          etcd_allow_reconnect |-> Or(etcd_allow_reconnect, ETCD_ALLOW_RECONNECT),
          base_dir |-> Or(base_dir, ETCD_HOSTS_BASE_DIR),
          client |-> [host |-> Or(etcd_host, ETCD_DEFAULT_HOST),
                      port |-> Or(etcd_port, PyInt(ETCD_DEFAULT_PORT))]]
    ELSE inst

\* the arguments EtcdClient is constructed with
EtcdHosts == {None, PyStr(<<>>), PyStr(<<"h", "1">>)}

EtcdPorts == {None, PyInt(0), PyInt(2380)}

EtcdReconnects == {None, PyBool(FALSE), PyBool(TRUE)}

EtcdBaseDirs == {None, PyStr(<<"d", "/">>)}

\* EtcdClient(etcd_host, etcd_port, etcd_allow_reconnect, base_dir)
EtcdClientNew ==
    /\ Idle
    /\ \E etcd_host \in EtcdHosts, etcd_port \in EtcdPorts,
          etcd_allow_reconnect \in EtcdReconnects, base_dir \in EtcdBaseDirs :
        /\ entry' = "EtcdClient"
        /\ args' = <<etcd_host, etcd_port, etcd_allow_reconnect, base_dir>>
        /\ instance' = EtcdClient_new(instance, etcd_host, etcd_port,
                                       etcd_allow_reconnect, base_dir)
        /\ result' = EtcdClient_new(instance, etcd_host, etcd_port,
                                     etcd_allow_reconnect, base_dir)
        /\ phase' = "returned"
    /\ UNCHANGED <<revision, specification, data, tokens, current, stack,
                   expression, error, first, calls, log, functions, etcd,
                   hosts, index, formatters,
                   storage>>

EtcdNext ==
    \/ EtcdClientNew

EtcdSpec == Init /\ [][EtcdNext]_vars

-----------------------------------------------------------------------------
(* OutputFormatterFactory of output_formatter/base_formatter.py and of     *)
(* inventory.py                                                            *)

\* formatter_class(hosts): BaseOutputFormatter.__init__ keeps the hosts
Formatter(formatter_class, host_items) ==
    [k |-> "object", class |-> formatter_class, hosts |-> host_items]

\* register_formatter(name, formatter_class), the same in both revisions:
\* the registry it leaves
register_formatter(fmts, name, formatter_class) ==
    [n \in DOMAIN fmts \cup {name} |->
        IF n = name THEN formatter_class ELSE fmts[n]]

\* create(format_name, hosts): the formatter it returns, None, or the
\* exception it raises
OutputFormatterFactory_create(rev, fmts, format_name, host_items) ==
    IF format_name \in DOMAIN fmts
    THEN Formatter(fmts[format_name], host_items)
    ELSE IF rev = Package
         THEN Exc("ValueError", "Formatter not found", format_name)
         ELSE None

\* the names and classes main() registers, cut to two, and a name it does not
FormatNames == {"csv", "json", "invalid-format"}

FormatterClasses == {"CsvOutputFormatter", "JsonOutputFormatter"}

\* the hosts handed to a formatter
HostItems == {<<>>, <<"host1">>}

\* OutputFormatterFactory.register_formatter(name, formatter_class)
OutputFormatterFactoryRegisterFormatter ==
    /\ Idle
    /\ \E name \in FormatNames, formatter_class \in FormatterClasses :
        /\ entry' = "OutputFormatterFactory.register_formatter"
        /\ args' = <<name, formatter_class>>
        /\ formatters' = register_formatter(formatters, name, formatter_class)
        /\ phase' = "returned"
        /\ error' = None
        /\ result' = None
    /\ UNCHANGED <<revision, specification, data, tokens, current, stack,
                   expression, first, calls, log, functions, etcd, hosts,
                   index, instance,
                   storage>>

\* OutputFormatterFactory.create(format_name, hosts), in either revision
OutputFormatterFactoryCreate ==
    /\ Idle
    /\ \E rev \in Revisions, format_name \in FormatNames,
          host_items \in HostItems :
        \E created \in {OutputFormatterFactory_create(rev, formatters,
                                                      format_name, host_items)} :
            /\ revision' = rev
            /\ entry' = "OutputFormatterFactory.create"
            /\ args' = <<format_name, host_items>>
            /\ phase' = IF IsExc(created) THEN "raised" ELSE "returned"
            /\ error' = IF IsExc(created) THEN created ELSE None
            /\ result' = IF IsExc(created) THEN None ELSE created
    /\ UNCHANGED <<specification, data, tokens, current, stack, expression,
                   first, calls, log, functions, etcd, hosts, index, instance,
                   formatters,
                   storage>>

FormatterNext ==
    \/ OutputFormatterFactoryRegisterFormatter
    \/ OutputFormatterFactoryCreate

FormatterSpec == Init /\ [][FormatterNext]_vars

-----------------------------------------------------------------------------
(* HostInventory over EtcdStorage, hostinventory.py with etcd_client.py    *)

\* Host(name, attributes)
Host(name, attributes) ==
    [k |-> "Host", name |-> name, attributes |-> attributes]

IsHost(v) == "k" \in DOMAIN v /\ v.k = "Host"

\* json.dumps(value) of a dict of texts, or of a text
json_dumps(value) ==
    IF value.k = "dict" THEN AsJson(value.items)
    ELSE <<DQ>> \o value.s \o <<DQ>>

\* f"{self.base_dir}{key}"
FullKey(key) == ETCD_HOSTS_BASE_DIR.s \o key

\* what a call leaves: the store, the puts it sent and what it returns
Left(st, sent, returned) ==
    [store |-> st, puts |-> sent, result |-> returned]

\* the one element of a set of one: binds a value that is used more than
\* once
Only(S) == CHOOSE x \in S : TRUE

\* the wrapper of handle_exceptions: an exception of func is logged and
\* None is returned
handle_exceptions(out) ==
    Only({IF IsExc(o.result) THEN Left(o.store, o.puts, None) ELSE o :
             o \in {out}})

\* EtcdClient.put(key, value), where ok tells whether etcd took the put
EtcdClient_put(st, key, value, ok) ==
    handle_exceptions(
        Left(IF ok
             THEN [n \in DOMAIN st \cup {FullKey(key)} |->
                      IF n = FullKey(key) THEN json_dumps(value) ELSE st[n]]
             ELSE st,
             <<[key |-> FullKey(key), value |-> json_dumps(value),
                returned |-> PyBool(ok)]>>,
             PyBool(ok)))

\* EtcdStorage.create_host(host)
EtcdStorage_create_host(st, host, ok) ==
    handle_exceptions(
        IF ~IsHost(host)
        THEN Left(st, <<>>, Exc("AttributeError", "no attribute name", host.k))
        ELSE IF Strip(host.name, Blank) = <<>>
        THEN Left(st, <<>>,
                  Exc("ValueError", "Host name cannot be empty", host.name))
        ELSE Only({IF ~Truthy(success.result)
                   THEN Left(success.store, success.puts,
                             Exc("CustomException", "Failed to create host",
                                 host.name))
                   ELSE Left(success.store, success.puts, None) :
                      success \in {EtcdClient_put(st, host.name,
                                                  host.attributes, ok)}}))

\* HostInventory.create_host(*arguments): create_host(self, host) takes
\* one argument
HostInventory_create_host(st, arguments, ok) ==
    handle_exceptions(
        IF Len(arguments) # 1
        THEN Left(st, <<>>,
                  Exc("TypeError", "takes 2 positional arguments",
                      Len(arguments) + 1))
        ELSE Only({Left(created.store, created.puts, None) :
                      created \in {EtcdStorage_create_host(st, arguments[1],
                                                           ok)}}))

\* json.loads(response) of a stored text: an object, or a string
loads(text) ==
    Only({IF string.ok /\ string.next > Len(text)
          THEN PyStr(string.value)
          ELSE json_loads(text) : string \in {JsonString(text, 1)}})

\* EtcdClient.get(key): the value decoded, None where nothing is stored or
\* the text does not decode
EtcdClient_get(st, key) ==
    IF FullKey(key) \notin DOMAIN st THEN None
    ELSE IF st[FullKey(key)] = <<>> THEN None
    ELSE Only({IF IsExc(value) THEN None ELSE value :
                  value \in {loads(st[FullKey(key)])}})

\* the keys of a dict in the order they are written in
RECURSIVE KeysFrom(_, _)
KeysFrom(m, i) ==
    IF i > Len(HostKeys) THEN <<>>
    ELSE IF HostKeys[i] \in DOMAIN m THEN <<HostKeys[i]>> \o KeysFrom(m, i + 1)
    ELSE KeysFrom(m, i + 1)

KeysOf(m) == KeysFrom(m, 1)

\* attributes, _ = value: what unpacking a value into two names gives the
\* first, or the exception
UnpackTwo(value) ==
    CASE value.k = "dict" ->
            IF Len(KeysOf(value.items)) = 2
            THEN PyStr(KeysOf(value.items)[1])
            ELSE Exc("ValueError", "values to unpack (expected 2)",
                     Len(KeysOf(value.items)))
      [] value.k = "str" ->
            IF Len(value.s) = 2
            THEN PyStr(<<value.s[1]>>)
            ELSE Exc("ValueError", "values to unpack (expected 2)",
                     Len(value.s))
      [] OTHER -> Exc("TypeError", "cannot unpack non-iterable", value.k)

\* EtcdStorage.get_host(name): a Host or None
EtcdStorage_get_host(st, name) ==
    Only({IF IsExc(attributes) THEN None ELSE Host(name, attributes) :
             attributes \in {Only({UnpackTwo(value) :
                                      value \in {EtcdClient_get(st, name)}})}})

\* a in b, of two texts
IsSubstring(a, b) ==
    \E i \in 0..(Len(b) - Len(a)) : SubSeq(b, i + 1, i + Len(a)) = a

\* host.update_attribute(key, value): the host after it, or the exception
Host_update_attribute(host, key, value) ==
    IF host.attributes.k = "dict"
    THEN IF key \in DOMAIN host.attributes.items
         THEN Host(host.name,
                   PyDict([f \in DOMAIN host.attributes.items |->
                             IF f = key THEN value
                             ELSE host.attributes.items[f]]))
         ELSE Exc("HostAttributeError", "Attribute not found", key)
    ELSE IF IsSubstring(key, host.attributes.s)
         THEN Exc("TypeError", "'str' object does not support item assignment",
                  key)
         ELSE Exc("HostAttributeError", "Attribute not found", key)

\* for key, value in new_attributes.items(): host.update_attribute(key,
\* value), from the i-th key on
RECURSIVE UpdateAll(_, _, _)
UpdateAll(host, news, i) ==
    IF i > Len(KeysOf(news)) THEN host
    ELSE Only({IF IsExc(updated) THEN updated
               ELSE UpdateAll(updated, news, i + 1) :
                  updated \in {Host_update_attribute(host, KeysOf(news)[i],
                                                     news[KeysOf(news)[i]])}})

\* EtcdStorage.update_host(name, new_attributes)
EtcdStorage_update_host(st, name, new_attributes, ok) ==
    handle_exceptions(Only({
        IF host = None
        THEN Left(st, <<>>,
                  Exc("HostNotFoundError", "not found in inventory", name))
        ELSE IF new_attributes.k # "dict"
        THEN Left(st, <<>>,
                  Exc("AttributeError", "object has no attribute 'items'",
                      new_attributes.k))
        ELSE Only({IF IsExc(updated) THEN Left(st, <<>>, updated)
                   ELSE Only({Left(sent.store, sent.puts, None) :
                                 sent \in {EtcdClient_put(st, name,
                                               updated.attributes, ok)}}) :
                      updated \in {UpdateAll(host, new_attributes.items, 1)}}) :
            host \in {EtcdStorage_get_host(st, name)}}))

\* HostInventory.update_host(*arguments): update_host(self, name, host)
\* takes two arguments
HostInventory_update_host(st, arguments, ok) ==
    handle_exceptions(
        IF Len(arguments) # 2
        THEN Left(st, <<>>,
                  Exc("TypeError", "takes 3 positional arguments",
                      Len(arguments) + 1))
        ELSE IF EtcdStorage_get_host(st, arguments[1].s) = None
        THEN Left(st, <<>>,
                  Exc("HostNotFoundError", "does not exist", arguments[1].s))
        ELSE Only({Left(updated.store, updated.puts, None) :
                      updated \in {EtcdStorage_update_host(
                                       st, arguments[1].s, arguments[2], ok)}}))

\* HostManager.update_host(name, field_name, field_value) of main.py
HostManager_update_host(st, name, field_name, field_value, ok) ==
    Only({
        IF host = None THEN Left(st, <<>>, None)
        ELSE Only({IF IsExc(updated) THEN Left(st, <<>>, updated)
                   ELSE Only({Left(kept.store, kept.puts, None) :
                                 kept \in {HostInventory_update_host(
                                     st, <<PyStr(name), updated>>, ok)}}) :
                      updated \in {Host_update_attribute(host, field_name,
                                                         field_value)}}) :
            host \in {EtcdStorage_get_host(st, name)}})

\* the host names and the attributes the inventory is called with
HostNames == {<<"h">>, <<" ">>}

HostAttributes == {m \in Mappings(HostValues) : <<"c">> \notin DOMAIN m}

\* create_host(host), as main.py calls it, and create_host(name, data)
CreateArguments ==
    {<<Host(name, PyDict(m))>> : name \in HostNames, m \in HostAttributes}
        \cup {<<PyStr(name), PyDict(m)>> :
                  name \in HostNames, m \in HostAttributes}

\* inventory.create_host(...)
HostInventoryCreateHost ==
    /\ Idle
    /\ \E arguments \in CreateArguments, ok \in BOOLEAN :
        \E out \in {HostInventory_create_host(store, arguments, ok)} :
            /\ entry' = "HostInventory.create_host"
            /\ args' = arguments
            /\ store' = out.store
            /\ puts' = out.puts
            /\ result' = out.result
            /\ phase' = "returned"
            /\ error' = None
    /\ UNCHANGED <<revision, specification, data, tokens, current, stack,
                   expression, first, calls, log, functions, etcd, hosts,
                   index, instance, formatters, clients,
                   inventory>>

\* update_host(name, host), as main.py calls it, update_host(name,
\* new_attributes) and update_host(name, field, value)
UpdateArguments ==
    {<<PyStr(name), Host(name, PyDict(m))>> :
        name \in HostNames, m \in HostAttributes}
        \cup {<<PyStr(name), PyDict(m)>> :
                  name \in HostNames, m \in HostAttributes}
        \cup {<<PyStr(name), PyStr(field), PyStr(value)>> :
                  name \in HostNames, field \in {<<"a">>, <<"b">>},
                  value \in HostValues}

\* inventory.update_host(...)
HostInventoryUpdateHost ==
    /\ Idle
    /\ \E arguments \in UpdateArguments, ok \in BOOLEAN :
        \E out \in {HostInventory_update_host(store, arguments, ok)} :
            /\ entry' = "HostInventory.update_host"
            /\ args' = arguments
            /\ store' = out.store
            /\ puts' = out.puts
            /\ result' = out.result
            /\ phase' = "returned"
            /\ error' = None
    /\ UNCHANGED <<revision, specification, data, tokens, current, stack,
                   expression, first, calls, log, functions, etcd, hosts,
                   index, instance, formatters, clients,
                   inventory>>

\* host_manager.update_host(name, field_name, field_value)
HostManagerUpdateHost ==
    /\ Idle
    /\ \E name \in HostNames, field \in {<<"a">>, <<"b">>},
          value \in HostValues, ok \in BOOLEAN :
        \E out \in {HostManager_update_host(store, name, field,
                                             PyStr(value), ok)} :
            /\ entry' = "HostManager.update_host"
            /\ args' = <<PyStr(name), PyStr(field), PyStr(value)>>
            /\ store' = out.store
            /\ puts' = out.puts
            /\ phase' = IF IsExc(out.result) THEN "raised" ELSE "returned"
            /\ error' = IF IsExc(out.result) THEN out.result ELSE None
            /\ result' = IF IsExc(out.result) THEN None ELSE out.result
    /\ UNCHANGED <<revision, specification, data, tokens, current, stack,
                   expression, first, calls, log, functions, etcd, hosts,
                   index, instance, formatters, clients,
                   inventory>>

StorageNext ==
    \/ HostInventoryCreateHost
    \/ HostInventoryUpdateHost
    \/ HostManagerUpdateHost

StorageSpec == Init /\ [][StorageNext]_vars

-----------------------------------------------------------------------------
(* HostInventory over etcd: inventory.py, and the class of                 *)
(* etcd_client/etcd_client.py, which has no get_host_data                  *)

EtcdClientFile == "etcd_client/etcd_client.py"

\* CONFIG["base_key"]
base_key == <<"/", "h", "o", "s", "t", "s", "/">>

\* _build_key(host_name)
build_key(host_name) == base_key \o host_name

\* get_host_data(host_name), lines 345-357.  etcd.get answers a pair, of
\* which line 356 takes the second for the stored bytes: second tells what
\* the client library puts there, the bytes ("value") or an object that
\* has no decode ("metadata"); for a key that is not stored both are None.
\* An exception ends the process.
get_host_data(st, host_name, second) ==
    IF build_key(host_name) \notin DOMAIN st THEN None
    ELSE IF second = "metadata" THEN SystemExit
    ELSE IF st[build_key(host_name)] = <<>> THEN None
    ELSE Only({IF IsExc(value) THEN SystemExit ELSE value :
                  value \in {loads(st[build_key(host_name)])}})

\* create_host from line 286 on, when get_host_data has answered got
create_host_after(st, host_name, host_data, got) ==
    IF IsExc(got) THEN Left(st, <<>>, got)
    ELSE IF ~Truthy(got)
    THEN Left([n \in DOMAIN st \cup {build_key(host_name)} |->
                  IF n = build_key(host_name) THEN json_dumps(host_data)
                  ELSE st[n]],
              <<[key |-> build_key(host_name), value |-> json_dumps(host_data),
                 returned |-> None]>>,
              None)
    ELSE Left(st, <<>>, None)

\* create_host(host_name, host_data), lines 283-290; in
\* etcd_client/etcd_client.py the call of get_host_data raises
\* AttributeError, which is logged
create_host(rev, st, host_name, host_data, second) ==
    IF rev = EtcdClientFile THEN Left(st, <<>>, None)
    ELSE create_host_after(st, host_name, host_data,
                           get_host_data(st, host_name, second))

\* the names of the hosts
InventoryNames == {<<"g">>, <<"h">>}

\* inventory.create_host(host_name, host_data)
InventoryCreateHost ==
    /\ Idle
    /\ \E rev \in {SingleFile, EtcdClientFile}, host_name \in InventoryNames,
          m \in HostAttributes, second \in {"value", "metadata"} :
        \E out \in {create_host(rev, store, host_name, PyDict(m), second)} :
            /\ revision' = rev
            /\ entry' = "create_host"
            /\ args' = <<PyStr(host_name), PyDict(m)>>
            /\ store' = out.store
            /\ puts' = out.puts
            /\ phase' = IF IsExc(out.result) THEN "exited" ELSE "returned"
            /\ error' = IF IsExc(out.result) THEN out.result ELSE None
            /\ result' = None
    /\ UNCHANGED <<specification, data, tokens, current, stack, expression,
                   first, calls, log, functions, etcd, hosts, index, instance,
                   formatters, clients,
                   inventory>>

InventoryNext ==
    \/ InventoryCreateHost

InventorySpec == Init /\ [][InventoryNext]_vars

\* Two clients, each a process with its own HostInventory of inventory.py
\* over the one etcd, each calling create_host once.  A call is two
\* requests to etcd: the get of get_host_data (line 286) and, where that
\* found nothing, the put of line 287.

Clients == {1, 2}

\* client c calls create_host(host_name, host_data) and gets the answer
\* of get_host_data
ClientGetHostData(c) ==
    /\ clients[c].pc = "start"
    /\ \E host_name \in InventoryNames, m \in HostAttributes :
        /\ clients' = [clients EXCEPT ![c] =
                [pc |-> "got", host_name |-> host_name,
                 host_data |-> PyDict(m),
                 got |-> get_host_data(store, host_name, "value")]]
        /\ entry' = "create_host"
        /\ revision' = SingleFile
        /\ phase' = "calling"
    /\ UNCHANGED <<specification, data, tokens, current, stack, expression,
                   error, result, first, calls, log, args, functions, etcd,
                   hosts, index, instance, formatters, store, puts,
                   inventory>>

\* client c goes on from line 286: the put, or the error message
ClientPutOrReject(c) ==
    /\ clients[c].pc = "got"
    /\ \E out \in {create_host_after(store, clients[c].host_name,
                                      clients[c].host_data, clients[c].got)} :
        /\ store' = out.store
        /\ puts' = puts \o out.puts
        /\ clients' = [clients EXCEPT ![c].pc =
                IF out.puts = <<>> THEN "rejected" ELSE "stored"]
        /\ phase' = IF \A d \in Clients \ {c} :
                            clients[d].pc \in {"rejected", "stored"}
                     THEN "returned" ELSE "calling"
    /\ UNCHANGED <<entry, revision, specification, data, tokens, current,
                   stack, expression, error, result, first, calls, log, args,
                   functions, etcd, hosts, index, instance, formatters,
                   inventory>>

ClientsNext ==
    \/ \E c \in Clients : ClientGetHostData(c)
    \/ \E c \in Clients : ClientPutOrReject(c)

ClientsSpec == Init /\ [][ClientsNext]_vars

-----------------------------------------------------------------------------
(* HostInventory of inventory/hostinventory.py: the hosts kept in memory   *)

\* Host(name): the host, or the ValueError of a name that is nothing but
\* white space
Host_init(name) ==
    IF Strip(name, Blank) = <<>>
    THEN Exc("ValueError", "Host name must be a non-empty string", name)
    ELSE [k |-> "Host", name |-> name, fields |-> [f \in {} |-> None]]

\* add_field(field_name, value): the host after the call; the ValueError
\* of a blank field name is logged by handle_exceptions
Host_add_field(host, field_name, value) ==
    IF Strip(field_name, Blank) = <<>> THEN host
    ELSE [host EXCEPT !.fields = [f \in DOMAIN @ \cup {field_name} |->
                                     IF f = field_name THEN value ELSE @[f]]]

\* update_field(field_name, value) with a field the host has or not
Host_update_fieldAdding(host, field_name, value) ==
    [host EXCEPT !.fields = [f \in DOMAIN @ \cup {field_name} |->
                                IF f = field_name THEN value ELSE @[f]]]

\* update_field(field_name, value): the host after the call; the KeyError
\* of a field the host has not is logged by handle_exceptions
Host_update_field(host, field_name, value) ==
    IF field_name \notin DOMAIN host.fields THEN host
    ELSE [host EXCEPT !.fields = [f \in DOMAIN @ \cup {field_name} |->
                                     IF f = field_name THEN value ELSE @[f]]]

\* the loop of create_host over host_data.items()
RECURSIVE AddFields(_, _, _)
AddFields(host, items, left) ==
    IF left = {} THEN host
    ELSE Only({AddFields(Host_add_field(host, f, items[f]), items,
                         left \ {f}) : f \in {CHOOSE g \in left : TRUE}})

\* create_host(host_name, host_data): self.hosts after the call; the
\* KeyError of a name that is kept and the ValueError of Host(host_name)
\* are logged by handle_exceptions
InMemory_create_host(kept, host_name, host_data) ==
    IF host_name \in DOMAIN kept THEN kept
    ELSE Only({IF IsExc(host) THEN kept
               ELSE [name \in DOMAIN kept \cup {host_name} |->
                        IF name = host_name
                        THEN AddFields(host, host_data.items,
                                       DOMAIN host_data.items)
                        ELSE kept[name]] :
                  host \in {Host_init(host_name)}})

\* update_host(host_name, field_name, value): self.hosts after the call;
\* the KeyError of a name that is not kept is logged by handle_exceptions
InMemory_update_host(kept, host_name, field_name, value) ==
    IF host_name \notin DOMAIN kept THEN kept
    ELSE [kept EXCEPT ![host_name] =
             Host_update_field(@, field_name, value)]

\* remove_host(host_name): self.hosts after the call
InMemory_remove_host(kept, host_name) ==
    IF host_name \notin DOMAIN kept THEN kept
    ELSE [name \in DOMAIN kept \ {host_name} |-> kept[name]]

\* the names, the fields and the data the inventory is called with
MemoryNames == {<<"g">>, <<"h">>, <<" ">>}

MemoryFields == {<<"a">>, <<"b">>, <<" ">>}

MemoryData ==
    UNION {[fs -> {PyStr(v) : v \in HostValues}] :
              fs \in SUBSET {<<"a">>, <<" ">>}}

\* what every call of the inventory leaves behind
MemoryReturns ==
    /\ result' = None
    /\ error' = None
    /\ phase' = "returned"
    /\ UNCHANGED <<revision, specification, data, tokens, current, stack,
                   expression, first, calls, log, functions, etcd, hosts,
                   index, instance, formatters, store, puts, clients>>

MemoryCreateHost ==
    /\ Idle
    /\ \E host_name \in MemoryNames, m \in MemoryData :
        /\ entry' = "create_host"
        /\ args' = <<PyStr(host_name), PyDict(m)>>
        /\ inventory' = InMemory_create_host(inventory, host_name, PyDict(m))
    /\ MemoryReturns

MemoryUpdateHost ==
    /\ Idle
    /\ \E host_name \in MemoryNames, field_name \in MemoryFields,
          v \in HostValues :
        /\ entry' = "update_host"
        /\ args' = <<PyStr(host_name), PyStr(field_name), PyStr(v)>>
        /\ inventory' = InMemory_update_host(inventory, host_name,
                                             field_name, PyStr(v))
    /\ MemoryReturns

MemoryRemoveHost ==
    /\ Idle
    /\ \E host_name \in MemoryNames :
        /\ entry' = "remove_host"
        /\ args' = <<PyStr(host_name)>>
        /\ inventory' = InMemory_remove_host(inventory, host_name)
    /\ MemoryReturns

MemoryNext ==
    \/ MemoryCreateHost
    \/ MemoryUpdateHost
    \/ MemoryRemoveHost

MemorySpec == Init /\ [][MemoryNext]_vars

-----------------------------------------------------------------------------
(* The claims                                                              *)

\* the call under way has ended
Done == phase \in {"returned", "raised"}

\* C1: the filter  role == "web" && count >= 2  parses and evaluates to the
\* truth value of the conjunction: true for {role: "web", count: 3}, false
\* for {role: "db", count: 5}.
C1_EndToEnd ==
    (/\ entry = "ExpressionFilter.evaluate"
     /\ specification = TextRole
     /\ data \in {RecordWeb, RecordDb}
     /\ Done)
    => /\ phase = "returned"
       /\ result = PyBool(data = RecordWeb)

\* C2: tokenizing  a && b  gives exactly the three tokens a, &&, b, in
\* order: the operator between the two identifiers is not dropped.
C2_TokenizeKeepsOperator ==
    (phase # "idle" /\ entry = "Parser.parse" /\ specification = TextAandB)
    => tokens = <<<<"a">>, <<"&", "&">>, <<"b">>>>

\* C3: for every record over the Boolean fields a, b, c the filter
\* a || b && c  evaluates to  a OR (b AND c).
C3_AndBindsTighter ==
    (/\ entry = "ExpressionFilter.evaluate"
     /\ specification = TextOrAnd
     /\ data \in BoolRecords
     /\ Done)
    => /\ phase = "returned"
       /\ result = PyBool(data[FieldA].b \/ (data[FieldB].b /\ data[FieldC].b))

\* C4: for every record over the Boolean fields a, b, c the filter
\* (a || b) && c  evaluates to  (a OR b) AND c.
C4_ParenthesesOverride ==
    (/\ entry = "ExpressionFilter.evaluate"
     /\ specification = TextParen
     /\ data \in BoolRecords
     /\ Done)
    => /\ phase = "returned"
       /\ result = PyBool((data[FieldA].b \/ data[FieldB].b) /\ data[FieldC].b)

\* C5: a parse that fails with no token left (the token sequence is empty,
\* or it ends where an operand is required, as in  role == ) fails with the
\* parser's own error, ValueError, and nothing has been evaluated.
C5_ParseErrorWhenOperandMissing ==
    (/\ entry = "Parser.parse"
     /\ phase = "raised"
     /\ ~has_tokens(tokens, current))
    => /\ error.type = "ValueError"
       /\ expression = None

\* C6 speaks of the state in which Parser.parse has returned: the cursor is
\* then at the end of the tokens.  parse_operand leaves its operand token
\* unconsumed, and no call of Parser.parse returns for any text within the
\* bounds: that is this invariant.  The state C6 speaks of is never reached.
ParseNeverReturns ==
    ~(entry \in {"Parser.parse", "ExpressionFilter.evaluate"} /\ phase = "returned")

\* C7: evaluating a Field whose name is not in the record fails with the
\* field-not-found error (KeyError), in either revision; it returns no
\* default and no None.
C7_MissingFieldFails ==
    (/\ entry = "Expression.evaluate"
     /\ Done
     /\ expression.node = "Field"
     /\ expression.field_name \notin DOMAIN data)
    => /\ phase = "raised"
       /\ error.type = "KeyError"

\* C8: parsing  a @ b  fails with an error that names the symbol @ (unknown
\* operator, or a tokenize error for it): @ is not silently discarded.
C8_UnknownOperatorNamed ==
    (entry = "Parser.parse" /\ specification = TextAt /\ Done)
    => /\ phase = "raised"
       /\ error.type \in {"ValueError", "TokenizeError"}
       /\ error.arg = <<"@">>

\* the characters of the token classes: identifiers and numbers, operator
\* symbols, parentheses, quotes, white space
TokenClassChars ==
    WordChars \cup {c \in DOMAIN Punctuation : c # "@"} \cup {"."}

\* C9: a text with a character of no token class fails to tokenize, with a
\* TokenizeError: no such character is skipped.
C9_UnclassedCharacterFails ==
    (/\ phase # "idle"
     /\ entry = "Parser.parse"
     /\ \E j \in 1..Len(specification) : specification[j] \notin TokenClassChars)
    => /\ phase = "raised"
       /\ error.type = "TokenizeError"

\* "in maintenance", with its quotes
QuotedRun ==
    <<DQ, "i", "n", " ", "m", "a", "i", "n", "t", "e", "n", "a", "n", "c", "e", DQ>>

\* C10: tokenizing  status == "in maintenance"  gives one token for the
\* quoted text, white space included (with or without its quotes).
C10_QuotedRunIsOneToken ==
    (phase # "idle" /\ entry = "Parser.parse" /\ specification = TextStatus)
    => \E j \in 1..Len(tokens) :
            tokens[j] \in {QuotedRun, Strip(QuotedRun, {DQ})}

\* how the last evaluate() call ended: the value returned or the exception
Outcome == IF phase = "raised" THEN error ELSE result

C12_BothOperandsEvaluated ==
    (/\ entry = "Expression.evaluate"
     /\ Done
     /\ expression.node = "BinaryOperator"
     /\ ~IsExc(Evaluate(revision, expression.left, data))) =>
        log = <<expression>>
                \o Calls(revision, expression.left, data)
                \o Calls(revision, expression.right, data)
                \o IF IsExc(Evaluate(revision, expression.right, data))
                   THEN <<>>
                   ELSE <<Call(expression.operator_func)>>

\* False && True: the right operand was evaluated all the same
C12_Witness ==
    /\ entry = "Expression.evaluate"
    /\ Done
    /\ expression.node = "BinaryOperator"
    /\ expression.operator_func = "operator.and_"
    /\ Evaluate(revision, expression.left, data) = PyBool(FALSE)
    /\ log = <<expression, expression.left, expression.right,
               Call("operator.and_")>>

\* the table as the specification gives it: ^ stands with the shifts
StatedPrecedence ==
    (<<"&", "&">> :> 1) @@ (<<"|", "|">> :> 1) @@ (<<"!">> :> 2) @@
    (<<"<">> :> 3) @@ (<<"<", "=">> :> 3) @@ (<<">">> :> 3) @@
    (<<">", "=">> :> 3) @@ (<<"=", "=">> :> 3) @@ (<<"!", "=">> :> 3) @@
    (<<"=", "~">> :> 3) @@ (<<"i", "s">> :> 3) @@
    (<<"i", "s", "n", "t">> :> 3) @@
    (<<"&">> :> 4) @@ (<<"|">> :> 4) @@ (<<"~">> :> 4) @@
    (<<"<", "<">> :> 5) @@ (<<">", ">">> :> 5) @@ (<<">", ">", ">">> :> 5) @@
    (<<"^">> :> 5) @@
    (<<"?">> :> 6) @@ (<<":">> :> 6)

\* the same table with ^ among the bitwise operators
AmendedPrecedence == [StatedPrecedence EXCEPT ![<<"^">>] = 4]

\* the binding power a table gives a token; a token it lacks has 0
Binds(table, token) == IF token \in DOMAIN table THEN table[token] ELSE 0

\* every parse_expression called for a right operand was given one more
\* than the binding power the table gives the operator token before it
RightOperandsBoundBy(table) ==
    \A i \in 1..(Len(stack) - 1) :
        (stack[i].fn = "parse_expression" /\ stack[i].pc = "right") =>
            stack[i + 1].precedence = Binds(table, stack[i].token) + 1

\* get_precedence returned what the table has for a symbol of the table
ReturnsPrecedenceOf(table) ==
    (entry = "Parser.get_precedence" /\ Done /\ args[1] \in DOMAIN table) =>
        result = PyInt(table[args[1]])

\* C13 as stated: get_precedence gives every operator symbol the binding
\* power of the specification's table, ^ = 5 among them.
C13_StatedTable ==
    /\ ReturnsPrecedenceOf(StatedPrecedence)
    /\ RightOperandsBoundBy(StatedPrecedence)

\* C13, amended: get_precedence gives every operator symbol the binding
\* power of the specification's table except that ^ has 4, the power of
\* the bitwise operators, and the parser binds each right operand by it.
C13_PrecedenceTable ==
    /\ ReturnsPrecedenceOf(AmendedPrecedence)
    /\ RightOperandsBoundBy(AmendedPrecedence)

\* get_precedence was asked about ^ and answered 4
C13_Witness ==
    /\ entry = "Parser.get_precedence"
    /\ Done
    /\ args = <<<<"^">>>>
    /\ result = PyInt(4)

\* C14: a register call for a name the registry has raises ValueError and
\* leaves the registry as it was, and no step changes what a registered
\* name maps to: each name keeps the first function registered under it.
C14_DuplicateRegistrationFails ==
    [][/\ (entry' = "FunctionFactory.register"
           /\ args'[1].name \in DOMAIN functions) =>
              /\ phase' = "raised"
              /\ error'.type = "ValueError"
              /\ functions' = functions
       /\ \A name \in DOMAIN functions :
              /\ name \in DOMAIN functions'
              /\ functions'[name] = functions[name]]_vars

\* a second function named double was refused and the first one kept
C14_Witness ==
    /\ entry = "FunctionFactory.register"
    /\ phase = "raised"
    /\ error.type = "ValueError"
    /\ args[1].name = "double"
    /\ functions["double"] # args[1]

\* the argument expressions a node holds
Operands(node) ==
    IF node.node = "UnaryOperator" THEN <<node.operand>>
    ELSE IF node.node = "BinaryOperator" THEN <<node.left, node.right>>
    ELSE <<>>

\* C15: the node create_function returns for a call with n arguments holds
\* all n argument expressions in order, and when the node is evaluated
\* each of them is evaluated against the record.
C15_AllArgumentsCarried ==
    /\ (entry = "FunctionFactory.create_function" /\ phase = "returned") =>
            Operands(result) = Tail(args)
    /\ (entry = "UnaryOperator.evaluate" /\ Done) =>
            \A i \in 2..Len(args) : \E j \in 1..Len(log) : log[j] = args[i]

\* does text begin with pattern
BeginsWith(text, pattern) ==
    /\ Len(pattern) <= Len(text)
    /\ SubSeq(text, 1, Len(pattern)) = pattern

\* C16: left =~ right, both operands being strings, matches the value of
\* right as the pattern against the value of left as the text: it gives
\* a match exactly when the left text begins with the right pattern.
C16_RightOperandIsPattern ==
    (/\ entry = "Expression.evaluate"
     /\ Done
     /\ expression.node = "BinaryOperator"
     /\ expression.operator_func = "re.match"
     /\ Evaluate(revision, expression.left, data).k = "str"
     /\ Evaluate(revision, expression.right, data).k = "str") =>
        /\ phase = "returned"
        /\ result # None <=>
                BeginsWith(Evaluate(revision, expression.left, data).s,
                           Evaluate(revision, expression.right, data).s)

\* C17: when list_hosts ends, every stored host was put to the filter,
\* whatever exceptions the filter raised on the hosts before it, and the
\* call returned its list.
C17_ErrorAbortsOneRecordOnly ==
    (entry = "HostInventory.list_hosts" /\ phase \in {"returned", "exited"}) =>
        /\ index = Len(etcd)
        /\ phase = "returned"

\* C18: called with a mapping written as a JSON object, as an XML element
\* of one child per key, or as key=value items, parse_host_data returns
\* that mapping, in either revision.
C18_ParseHostDataReturnsMapping ==
    (entry \in {"HostDataParser.parse_host_data", "parse_host_data"}) =>
        /\ \A m \in Mappings(HostValues) :
                args[1] \in {AsJson(m), AsXml(m)} =>
                    phase = "returned" /\ result = PyDict(m)
        /\ \A m \in Mappings(HostValues \cup KeyValueOnly) :
                args[1] = AsKeyValue(m) =>
                    phase = "returned" /\ result = PyDict(m)

C20_CreateReturnsFormatterOrNone ==
    (entry = "OutputFormatterFactory.create") =>
        /\ phase = "returned"
        /\ error = None
        /\ result = IF args[1] \in DOMAIN formatters
                    THEN Formatter(formatters[args[1]], args[2])
                    ELSE None

\* the name and the data of the host a create_host call was given, as
\* create_host(host) or as create_host(name, data)
CreatedName == IF Len(args) = 1 THEN args[1].name ELSE args[1].s

CreatedData == IF Len(args) = 1 THEN args[1].attributes ELSE args[2]

\* C21: create_host for a name that is not blank and has no host yet sends
\* one put, of the given data under that host's key, and returns what that
\* put returned.
C21_CreateHostPutsOnceAndReturnsIt ==
    [][(/\ entry' = "HostInventory.create_host"
        /\ Strip(CreatedName', Blank) # <<>>
        /\ FullKey(CreatedName') \notin DOMAIN store) =>
            /\ Len(puts') = 1
            /\ puts'[1].key = FullKey(CreatedName')
            /\ json_loads(puts'[1].value) = CreatedData'
            /\ result' = puts'[1].returned]_vars

\* the fields an update_host call asks to set, with their values: those of
\* update_host(name, field, value), of update_host(name, host) and of
\* update_host(name, new_attributes)
Updates ==
    IF Len(args) = 3 THEN args[2].s :> args[3]
    ELSE IF IsHost(args[2]) THEN args[2].attributes.items
    ELSE args[2].items

\* the data kept for a host name in a store, decoded
Kept(st, name) == loads(st[FullKey(name)])

\* data with the fields of news set to their values there
Updated(olds, news) ==
    [f \in DOMAIN olds |-> IF f \in DOMAIN news THEN news[f] ELSE olds[f]]

\* C22: update_host for a host that create_host stored, of fields that host
\* has, leaves that host's data with those fields set to the new values and
\* the others as they were, and returns what the put of that data returned.
C22_UpdateHostStoresUpdatedData ==
    [][(/\ entry' \in {"HostInventory.update_host", "HostManager.update_host"}
        /\ FullKey(args'[1].s) \in DOMAIN store
        /\ Kept(store, args'[1].s).k = "dict"
        /\ DOMAIN Updates' \subseteq DOMAIN Kept(store, args'[1].s).items) =>
            /\ phase' = "returned"
            /\ Kept(store', args'[1].s)
                   = PyDict(Updated(Kept(store, args'[1].s).items, Updates'))
            /\ Len(puts') = 1
            /\ result' = puts'[1].returned]_vars

\* parse_operand, called at line 21 on the token under the cursor, returns
\* a Value or a Field for that token in this step
OperandReturned ==
    /\ phase = "parsing"
    /\ Top(stack).fn = "parse_expression"
    /\ Top(stack).pc = "operand"
    /\ phase' = "parsing"
    /\ Len(stack') = Len(stack)
    /\ Top(stack').pc = "loop"

\* C23: when parse_operand returns a Value or a Field for the token under
\* the cursor, the cursor has moved past that token, so that the loop of
\* parse_expression looks next at the token after the operand.
C23_OperandIsConsumed ==
    [][OperandReturned => current' = current + 1]_vars

\* the loop of parse_expression looks at a token (line 23)
LoopLooksAtToken ==
    /\ phase = "parsing"
    /\ Top(stack).fn = "parse_expression"
    /\ Top(stack).pc = "loop"
    /\ has_tokens(tokens, current)

\* the loop consumes the token and parses a right operand for it (lines
\* 27-28)
TokenTakenAsOperator ==
    /\ phase' = "parsing"
    /\ Len(stack') = Len(stack) + 1
    /\ current' = current + 1

\* C24: the loop of parse_expression(min_precedence) takes the token it
\* looks at as a binary operator exactly when the token is a known operator
\* symbol of precedence >= min_precedence, and parses its right operand one
\* level tighter, which makes equal precedences associate to the left;
\* every other token stays where it is.
C24_OnlyOperatorsAreConsumed ==
    [][LoopLooksAtToken =>
        IF /\ peek(tokens, current) \in DOMAIN precedence
           /\ precedence[peek(tokens, current)] >= Top(stack).precedence
        THEN /\ TokenTakenAsOperator
             /\ Top(stack').precedence = precedence[peek(tokens, current)] + 1
        ELSE ~TokenTakenAsOperator]_vars

\* C25: the text  !a  parses to a UnaryOperator of the one operand a with
\* the function of "!", filtering a record by it gives the negation of the
\* record's a, and create_operator builds no BinaryOperator for "!".
C25_NotIsUnary ==
    /\ (entry = "Parser.parse" /\ specification = TextNot /\ Done) =>
            /\ phase = "returned"
            /\ result = UnaryOperator(Field(FieldA), "operator.not_")
    /\ (/\ entry = "ExpressionFilter.evaluate"
        /\ specification = TextNot
        /\ Done
        /\ FieldA \in DOMAIN data
        /\ data[FieldA].k = "bool") =>
            /\ phase = "returned"
            /\ result = PyBool(~data[FieldA].b)
    /\ (/\ entry = "OperatorFactory.create_operator"
        /\ args[1] = <<"!">>
        /\ phase = "returned") =>
            result.node # "BinaryOperator"

\* a step of the parser: the cursor does not go back and stays within the
\* tokens, and a new call of parse_expression, from the loop (line 28) or
\* from the parenthesis branch (line 36), comes after one more token was
\* consumed
CursorAdvances ==
    /\ current' >= current
    /\ current' \in 0..Len(tokens')
    /\ Len(stack') > Len(stack) => current' = current + 1

C29_RoundReturnsRounded ==
    (/\ entry = "UnaryOperator.evaluate"
     /\ args[1] = "round"
     /\ expression.operand.node = "Value"
     /\ IsNum(expression.operand.value)) =>
        /\ phase = "returned"
        /\ result = PyInt(NumVal(expression.operand.value))

\* C27: create_host for a name under whose key something is stored, be it
\* the empty mapping, sends no put and leaves the store as it is.
C27_CreateHostNeverOverwrites ==
    [][(/\ entry' = "create_host"
        /\ build_key(args'[1].s) \in DOMAIN store) =>
            /\ puts' = <<>>
            /\ store' = store]_vars

\* C30: when both clients have called create_host for one name, absent
\* before, with different data, one of them has stored its data and the
\* other was told that the host exists: there were not two puts.
C30_OneOfTwoCreatesStores ==
    (/\ \A c \in Clients : clients[c].pc \in {"stored", "rejected"}
     /\ clients[1].host_name = clients[2].host_name
     /\ clients[1].host_data # clients[2].host_data) =>
        /\ \E c \in Clients : clients[c].pc = "rejected"
        /\ Len(puts) <= 1

\* the fields of every host kept, by host name
FieldsKept(kept) ==
    [name \in DOMAIN kept |-> DOMAIN kept[name].fields]

\* the call in hand is one the inventory has to turn down
TurnedDown ==
    \/ /\ entry' = "create_host"
       /\ \/ args'[1].s \in DOMAIN inventory
          \/ Strip(args'[1].s, Blank) = <<>>
    \/ /\ entry' = "update_host"
       /\ \/ args'[1].s \notin DOMAIN inventory
          \/ args'[2].s \notin DOMAIN inventory[args'[1].s].fields
    \/ /\ entry' = "remove_host"
       /\ args'[1].s \notin DOMAIN inventory

\* C28: in the inventory kept in memory, create_host of a name that is
\* kept or blank, update_host of a host that is not kept or of a field the
\* host has not, and remove_host of a host that is not kept leave the hosts
\* and the fields of every host as they were; no update_host adds a field
\* or a host.
C28_FailingCallsChangeNothing ==
    [][/\ TurnedDown => inventory' = inventory
       /\ entry' = "update_host" =>
              FieldsKept(inventory') = FieldsKept(inventory)]_vars

\* an update_host of a field the host has not has returned, with another
\* field on the host
C28_Witness ==
    /\ entry = "update_host"
    /\ phase = "returned"
    /\ args[1].s \in DOMAIN inventory
    /\ args[2].s \notin DOMAIN inventory[args[1].s].fields
    /\ inventory[args[1].s].fields # <<>>

=============================================================================
